---- MODULE Spec2Model ----
(***************************************************************************)
(* A model of the moderation bot (src/bot.js, with the earlier variant of  *)
(* the same program kept in src/unnamed/part_000).                         *)
(*                                                                         *)
(* Node.js runs one callback at a time: the code between two awaits is one *)
(* atomic step, and every await is a point where other handlers may run.   *)
(* Each action below is one such step.  Awaits of logDetailed change no    *)
(* modelled state and are folded into the step that precedes them.         *)
(*                                                                         *)
(* The clock now is Date.now() in whole seconds (every duration of the     *)
(* code is a whole number of seconds); it advances in steps whose length   *)
(* each specification chooses.                                             *)
(***************************************************************************)
EXTENDS Integers, Sequences, FiniteSets, TLC

VARIABLES
    \* ---- createTicketChannel, one (guild, member) key ----
    tpc,            \* position of each createTicketChannel call
    lockInMap,      \* ticketCreationLocks.get(lockKey): the lock held there (0: none)
    lockResolved,   \* per lock object: its promise has been resolved
    lockTimer,      \* per lock object: "none" | "armed" | "fired" | "cleared"
    waitOn,         \* per call: the lock whose promise it awaits (0: none)
    chanExists,     \* per channel id: the channel exists on the platform
    rowState,       \* per channel id: ticket row "none" | "open" | "closed"
    ret,            \* per call: 0 not returned, -1 threw, n > 0 returned channel n
    ownerUniq,      \* the ticket table rejects a second open ticket of one owner
    uniqueSeen,     \* per call: its createTicketRow threw a uniqueness violation
    \* ---- rate / queue / cache (lines 181-185) ----
    now,            \* Date.now()
    windowStart,
    callsThisWindow,
    activeCalls,
    pendingQueue,   \* the runs whose {content, resolve} items wait, in order
    messageCache,   \* content -> {flagged, category, ts}
    openai,         \* the OpenAI client is configured (OPENAI_API_KEY set)
    MAX_OPENAI_PER_MIN, \* the budget of a window, read from the environment at start
    CONCURRENCY,    \* the number of call slots, read from the environment at start
    \* ---- one run of the messageCreate handler per delivered message ----
    pc,             \* position of each run
    author,
    content,
    messageId,      \* message.id of the delivered message
    channel,        \* message.channel.id of the delivered message, by name
    path,           \* how the run's classification is obtained: direct | queue | quar
    result,         \* the run's classification result
    stage,          \* the external call in flight: none | chat | responses
    hung,           \* the external call in flight will never return
    answer,         \* the adjudicator's answer the run received
    verification,   \* what verifyStrikeDecision returned to the run: {strike, reason}
    outcome,        \* what became of the run's classification request
    deleted,        \* message.delete() was done for the run's message
    \* ---- members, strikes ----
    recentMessages, \* per user: the {content, ts} of the flood window
    strikes,        \* the rows of the strike table
    mutedRole,      \* the members holding the Muted role
    muteTimers,     \* pending unmute timers {user, at}
    quarRole,       \* the members holding the Quarantined role
    muteApplied,    \* per run: the mute the run applied: none | timed | forever
    quarantineMap,  \* per user: quarantine start (-1: no record)
    activeAtCreate, \* per run: the user's active strikes right after its createStrike
    endMuted,       \* per run: the user held the Muted role when the run ended
    \* ---- accounts, the quarantine sweep ----
    members,        \* guild.members.cache: the users who are members
    accountCreatedAt, \* per user: user.createdTimestamp
    joinedAt,       \* per user: Date.now() of its guildMemberAdd (-1: none was handled)
    sweep,          \* the scanGuildsForQuarantine call in progress: {pc, left, startedAt}
    sweepLog,       \* the completed sweeps, in order: {at, map} as they started
    \* ---- functions called on their own ----
    trace,          \* the last calls made, in order: {fn, args, ret, at, saw}
    \* ---- the DM queue ----
    dmQueue,        \* the items waiting, in order (an item is its number)
    dmInProgress,   \* a processDmQueue invocation is running its loop
    dmWorker,       \* that invocation: {pc, item, tries}
    dmResolved,     \* per item: what its promise was resolved with
    dmLog           \* per item: the send attempts made and how the last one ended

tvars == <<tpc, lockInMap, lockResolved, lockTimer, waitOn, chanExists, rowState,
           ret, ownerUniq, uniqueSeen>>

\* what is configured when the process starts
cfg == <<openai, MAX_OPENAI_PER_MIN, CONCURRENCY>>

gvars == <<now, windowStart, callsThisWindow, activeCalls, pendingQueue, messageCache,
           cfg>>

rvars == <<pc, author, content, messageId, channel, path, result, stage, hung, answer, verification, outcome,
           deleted>>

mvars == <<recentMessages, strikes, mutedRole, muteTimers, muteApplied, quarRole,
           quarantineMap, activeAtCreate, endMuted>>

svars == <<members, accountCreatedAt, joinedAt, sweep, sweepLog>>

dvars == <<dmQueue, dmInProgress, dmWorker, dmResolved, dmLog>>

vars == <<tvars, gvars, rvars, mvars, svars, trace, dvars>>

----------------------------------------------------------------------------
(* Bounds of the model *)

\* calls of createTicketChannel on the key (SpecTicket)
MaxTicketCalls == 3

\* calls of a pair of callers (SpecTicketPair)
MaxPairCalls == 2

\* DMs handed to sendDMWithRetries (SpecDm)
MaxDms == 2

\* line 1109: maxRetries = 5, the value every caller leaves to the default
DefaultMaxRetries == 5

TCalls == 1..MaxTicketCalls

PairCalls == 1..MaxPairCalls

----------------------------------------------------------------------------
(* Text: a string is the sequence of its characters *)

LowerToUpper ==
    [ch \in {"a","b","c","d","e","f","g","h","i","j","k","l","m","n","o","p","q",
             "r","s","t","u","v","w","x","y","z"} |->
        CASE ch = "a" -> "A" [] ch = "b" -> "B" [] ch = "c" -> "C" [] ch = "d" -> "D"
          [] ch = "e" -> "E" [] ch = "f" -> "F" [] ch = "g" -> "G" [] ch = "h" -> "H"
          [] ch = "i" -> "I" [] ch = "j" -> "J" [] ch = "k" -> "K" [] ch = "l" -> "L"
          [] ch = "m" -> "M" [] ch = "n" -> "N" [] ch = "o" -> "O" [] ch = "p" -> "P"
          [] ch = "q" -> "Q" [] ch = "r" -> "R" [] ch = "s" -> "S" [] ch = "t" -> "T"
          [] ch = "u" -> "U" [] ch = "v" -> "V" [] ch = "w" -> "W" [] ch = "x" -> "X"
          [] ch = "y" -> "Y" [] ch = "z" -> "Z"]

\* String.prototype.toUpperCase
ToUpperCase(s) ==
    [i \in 1..Len(s) |-> IF s[i] \in DOMAIN LowerToUpper THEN LowerToUpper[s[i]] ELSE s[i]]

\* String.prototype.includes
Includes(s, sub) ==
    \E i \in 0..(Len(s) - Len(sub)) : SubSeq(s, i + 1, i + Len(sub)) = sub

IsSpace(ch) == ch \in {" ", "\n", "\r", "\t"}

RECURSIVE TrimStart(_)
TrimStart(s) == IF s # <<>> /\ IsSpace(Head(s)) THEN TrimStart(Tail(s)) ELSE s

RECURSIVE TrimEnd(_)
TrimEnd(s) ==
    IF s # <<>> /\ IsSpace(s[Len(s)]) THEN TrimEnd(SubSeq(s, 1, Len(s) - 1)) ELSE s

\* String.prototype.trim
Trim(s) == TrimEnd(TrimStart(s))

\* raw.split(/\r?\n/): the pieces between line breaks
RECURSIVE SplitLines(_, _)
SplitLines(s, cur) ==
    IF s = <<>> THEN <<cur>>
    ELSE IF Head(s) = "\n"
           THEN <<IF cur # <<>> /\ cur[Len(cur)] = "\r"
                    THEN SubSeq(cur, 1, Len(cur) - 1) ELSE cur>>
                \o SplitLines(Tail(s), <<>>)
           ELSE SplitLines(Tail(s), Append(cur, Head(s)))

\* Array.prototype.filter(Boolean) on strings: the non-empty ones, in order
RECURSIVE NonEmpty(_)
NonEmpty(ls) ==
    IF ls = <<>> THEN <<>>
    ELSE IF Head(ls) = <<>> THEN NonEmpty(Tail(ls))
         ELSE <<Head(ls)>> \o NonEmpty(Tail(ls))

\* the tokens the code searches for (lines 279-284, 357-358)
S_FLAG_HATE == <<"F", "L", "A", "G", "_", "H", "A", "T", "E">>

S_FLAG_NSFW == <<"F", "L", "A", "G", "_", "N", "S", "F", "W">>

S_FLAG_BET == <<"F", "L", "A", "G", "_", "B", "E", "T">>

S_FLAG_SPAM == <<"F", "L", "A", "G", "_", "S", "P", "A", "M">>

S_OK == <<"O", "K">>

S_SPACE_OK == <<" ", "O", "K">>

S_FLAG == <<"F", "L", "A", "G">>

S_STRIKE == <<"S", "T", "R", "I", "K", "E">>

S_NO_STRIKE == <<"N", "O", "_", "S", "T", "R", "I", "K", "E">>

\* lines 277-293: the classifier's text mapped to a category
MapCategory(raw) ==
    LET out == ToUpperCase(raw) IN
    IF Includes(out, S_FLAG_HATE) THEN "FLAG_HATE"
    ELSE IF Includes(out, S_FLAG_NSFW) THEN "FLAG_NSFW"
    ELSE IF Includes(out, S_FLAG_BET) THEN "FLAG_BET"
    ELSE IF Includes(out, S_FLAG_SPAM) THEN "FLAG_SPAM"
    ELSE IF out = S_OK \/ Includes(out, S_SPACE_OK) THEN "OK"
    ELSE IF Includes(out, S_FLAG) THEN "FLAG_SPAM"
    ELSE "OK"

\* a classification result {flagged, category}
Result(category) == [flagged |-> category # "OK", category |-> category]

ResultOK == [flagged |-> FALSE, category |-> "OK"]

\* lines 353-360: the adjudicator's text parsed to strike / no strike
ParseVerdict(raw) ==
    LET lines == NonEmpty([i \in 1..Len(SplitLines(raw, <<>>)) |->
                              Trim(SplitLines(raw, <<>>)[i])])
        first == ToUpperCase(IF lines = <<>> THEN <<>> ELSE lines[1])
    IN  IF Includes(first, S_STRIKE) THEN TRUE
        ELSE IF Includes(first, S_NO_STRIKE) THEN FALSE
        ELSE FALSE

\* lines 353-360: the value verifyStrikeDecision returns for the response raw
Verdict(raw) ==
    LET lines == NonEmpty([i \in 1..Len(SplitLines(raw, <<>>)) |->
                              Trim(SplitLines(raw, <<>>)[i])])
        first == ToUpperCase(IF lines = <<>> THEN <<>> ELSE lines[1])
    IN  IF Includes(first, S_STRIKE) THEN [strike |-> TRUE, reason |-> "second"]
        ELSE IF Includes(first, S_NO_STRIKE) THEN [strike |-> FALSE, reason |-> "second"]
        ELSE [strike |-> FALSE, reason |-> "ambiguous_verification_response_lenient"]

\* the first non-empty line of a response, trimmed and upper-cased
FirstLine(raw) ==
    LET lines == NonEmpty([i \in 1..Len(SplitLines(raw, <<>>)) |->
                              Trim(SplitLines(raw, <<>>)[i])])
    IN  ToUpperCase(IF lines = <<>> THEN <<>> ELSE lines[1])

\* answers of the adjudication call (two lines: verdict, reason)
V_Strike ==
    <<"S", "T", "R", "I", "K", "E", "\n", "P", "a", "i", "d", " ", "p", "i", "c", "k", "s", " ", "s", "o", "l", "i", "c", "i", "t", "a", "t", "i", "o", "n", ".">>

V_NoStrike ==
    <<"N", "O", "_", "S", "T", "R", "I", "K", "E", "\n", "H", "a", "r", "m", "l", "e", "s", "s", " ", "s", "l", "a", "n", "g", ".">>

V_NoStrikeLower ==
    <<"\n", "n", "o", "_", "s", "t", "r", "i", "k", "e", "\r", "\n", "f", "i", "n", "e">>

V_Unclear ==
    <<"U", "n", "c", "l", "e", "a", "r">>

\* answers of the classification call
R_OK == <<"O", "K">>

R_FlagBet == <<"F", "L", "A", "G", "_", "B", "E", "T">>

R_FlagHate == <<"f", "l", "a", "g", "_", "h", "a", "t", "e">>

R_Flag == <<"F", "L", "A", "G">>

R_IThinkOk == <<"I", " ", "t", "h", "i", "n", "k", " ", "O", "K">>

R_Empty == <<>>

R_Junk == <<"S", "o", "r", "r", "y", "?">>

R_Spam == <<"F", "L", "A", "G", "_", "S", "P", "A", "M">>

R_Nsfw == <<"F", "L", "A", "G", "_", "N", "S", "F", "W">>

----------------------------------------------------------------------------
(* The patterns of lines 110-135, matched on character sequences *)

Letters == DOMAIN LowerToUpper

Digits == {"0", "1", "2", "3", "4", "5", "6", "7", "8", "9"}

IsUpper(ch) == \E l \in Letters : LowerToUpper[l] = ch

\* String.prototype.toLowerCase, and the i flag of a pattern
ToLowerCase(s) ==
    [i \in 1..Len(s) |->
        IF IsUpper(s[i]) THEN CHOOSE l \in Letters : LowerToUpper[l] = s[i] ELSE s[i]]

\* \w
IsWordChar(ch) == ch \in Letters \/ IsUpper(ch) \/ ch \in Digits \/ ch = "_"

\* \b between the characters i and i + 1 of s
WordBoundary(s, i) ==
    (i >= 1 /\ IsWordChar(s[i])) # (i < Len(s) /\ IsWordChar(s[i + 1]))

\* sub stands in s right after position i
At(s, i, sub) == i + Len(sub) <= Len(s) /\ SubSeq(s, i + 1, i + Len(sub)) = sub

Min(a, b) == IF a < b THEN a ELSE b

\* \s+ after position i: the positions where it may end
RECURSIVE SpacesFrom(_, _)
SpacesFrom(s, i) ==
    IF i < Len(s) /\ IsSpace(s[i + 1]) THEN {i + 1} \cup SpacesFrom(s, i + 1) ELSE {}

\* \s? after position i
OptSpace(s, i) == {i} \cup (IF i < Len(s) /\ IsSpace(s[i + 1]) THEN {i + 1} ELSE {})

\* \S+ after position i
RECURSIVE NonSpacesFrom(_, _)
NonSpacesFrom(s, i) ==
    IF i < Len(s) /\ ~IsSpace(s[i + 1]) THEN {i + 1} \cup NonSpacesFrom(s, i + 1) ELSE {}

\* \d{1,n} after position i
DigitsFrom(s, i, n) ==
    {j \in (i + 1)..Min(i + n, Len(s)) : \A k \in (i + 1)..j : s[k] \in Digits}

\* the words ws, \s+ between them, after position i: the positions where they may end
RECURSIVE PhraseEnds(_, _, _)
PhraseEnds(s, i, ws) ==
    IF ~At(s, i, Head(ws)) THEN {}
    ELSE IF Len(ws) = 1 THEN {i + Len(Head(ws))}
    ELSE UNION {PhraseEnds(s, j, Tail(ws)) : j \in SpacesFrom(s, i + Len(Head(ws)))}

\* /\b(?:p1|p2|...)\b/.test(s), each p a list of words with \s+ between them
MatchesPhrase(s, phrases) ==
    \E ws \in phrases : \E i \in 0..Len(s) :
        /\ WordBoundary(s, i)
        /\ \E j \in PhraseEnds(s, i, ws) : WordBoundary(s, j)

\* line 110: the alternatives of AFFIRMATION_REGEX that are plain strings
AffirmationTokens ==
    {<<"b", "e", "t">>, <<"a", "l", "r", "i", "g", "h", "t", " ", "b", "e", "t">>,
     <<"b", "e", "t", "!">>, <<"b", "e", "t", " ", "r", "n">>,
     <<"b", "e", "t", " ", "b", "r", "o">>, <<"b", "e", "t", " ", "f", "a", "m">>,
     <<"f", "a", "c", "t", "s">>, <<"o", "k">>, <<"o", "k", "i", "e">>,
     <<"y", "e", "p">>, <<"y", "u", "p">>, <<"y", "a">>, <<"y", "a", "h">>,
     <<"b", "e", "t", "t", "y">>}

S_bet == <<"b", "e", "t">>

\* line 110: /^(?:bet|alright bet|bet!|bet\.*|bett+|...)$/i on the whole string
AFFIRMATION_REGEX(s) ==
    LET low == ToLowerCase(s) IN
    \/ low \in AffirmationTokens
    \/ At(low, 0, S_bet) /\ \A i \in 4..Len(low) : low[i] = "."
    \/ At(low, 0, S_bet) /\ Len(low) >= 4 /\ \A i \in 4..Len(low) : low[i] = "t"

\* line 113: the alternatives of BETTING_SIGNAL_REGEX, optional parts written out
BettingSignalPhrases ==
    {<<<<"d", "m">>, <<"p", "i", "c", "k", "s">>>>,
     <<<<"d", "m">>, <<"f", "o", "r">>, <<"p", "i", "c", "k", "s">>>>,
     <<<<"p", "m">>, <<"p", "i", "c", "k", "s">>>>,
     <<<<"p", "m">>, <<"f", "o", "r">>, <<"p", "i", "c", "k", "s">>>>,
     <<<<"d", "m", "m", "e">>, <<"f", "o", "r">>, <<"p", "i", "c", "k", "s">>>>,
     <<<<"d", "m">>, <<"f", "o", "r">>, <<"p", "i", "c", "k">>>>,
     <<<<"s", "e", "l", "l">>, <<"p", "i", "c", "k", "s">>>>,
     <<<<"s", "e", "l", "l", "i", "n", "g">>, <<"p", "i", "c", "k", "s">>>>,
     <<<<"p", "i", "c", "k", "s">>, <<"f", "o", "r">>, <<"s", "a", "l", "e">>>>,
     <<<<"p", "a", "r", "l", "a", "y">>>>, <<<<"p", "a", "r", "l", "a", "y", "s">>>>,
     <<<<"s", "p", "o", "r", "t", "s", "b", "o", "o", "k">>>>,
     <<<<"b", "o", "o", "k", "i", "e">>>>, <<<<"b", "o", "o", "k", "i", "e", "s">>>>,
     <<<<"p", "a", "r", "l", "a", "y", "t", "i", "p">>>>,
     <<<<"p", "a", "r", "l", "a", "y">>, <<"t", "i", "p", "s">>>>,
     <<<<"t", "i", "p", "s", "t", "e", "r">>>>,
     <<<<"n", "b", "a">>, <<"p", "i", "c", "k", "s">>>>,
     <<<<"n", "b", "a">>, <<"p", "i", "c", "k">>>>,
     <<<<"n", "b", "a", "p", "i", "c", "k", "s">>>>,
     <<<<"n", "b", "a">>, <<"p", "a", "r", "l", "a", "y">>>>,
     <<<<"m", "l", "b">>, <<"p", "i", "c", "k", "s">>>>,
     <<<<"n", "b", "a">>, <<"p", "a", "r", "l", "a", "y", "s">>>>}

\* line 113
BETTING_SIGNAL_REGEX(s) == MatchesPhrase(ToLowerCase(s), BettingSignalPhrases)

\* line 116: the alternatives of BETTING_LIKELY_REGEX that are plain words
BettingLikelyWords ==
    {<<"m", "o", "n", "e", "y", "l", "i", "n", "e">>, <<"m", "l">>,
     <<"o", "d", "d", "s">>, <<"s", "p", "r", "e", "a", "d">>, <<"o", "v", "e", "r">>,
     <<"u", "n", "d", "e", "r">>, <<"o", "/", "u">>, <<"p", "a", "r", "l", "a", "y">>,
     <<"v", "i", "g">>, <<"j", "u", "i", "c", "e">>}

\* line 116: \$\s?\d{1,6}(?:\.\d{1,2})? after position i
MoneyEnds(s, i) ==
    IF ~At(s, i, <<"$">>) THEN {}
    ELSE LET d == UNION {DigitsFrom(s, k, 6) : k \in OptSpace(s, i + 1)}
         IN  d \cup UNION {IF At(s, j, <<".">>) THEN DigitsFrom(s, j + 1, 2) ELSE {} :
                              j \in d}

\* line 116: the currency marks (the texts of the model hold no other)
CurrencyMarks == {<<"U", "S", "D">>, <<"u", "s", "d">>, <<"$">>}

\* line 116: \d{1,6}\s?(?:USD|usd|\$|...) after position i
AmountEnds(s, i) ==
    UNION {UNION {{k + Len(c) : c \in {m \in CurrencyMarks : At(s, k, m)}} :
                     k \in OptSpace(s, j)} : j \in DigitsFrom(s, i, 6)}

\* line 116: \+\d{1,3} and \-\d{1,3} after position i
SignedEnds(s, i) ==
    IF At(s, i, <<"+">>) \/ At(s, i, <<"-">>) THEN DigitsFrom(s, i + 1, 3) ELSE {}

\* line 116 (the pattern has no i flag)
BETTING_LIKELY_REGEX(s) ==
    \E i \in 0..Len(s) :
        /\ WordBoundary(s, i)
        /\ \E j \in MoneyEnds(s, i) \cup AmountEnds(s, i) \cup SignedEnds(s, i)
                    \cup {i + Len(w) : w \in {v \in BettingLikelyWords : At(s, i, v)}} :
              WordBoundary(s, j)

\* lines 118-120
NSFW_KEYWORDS ==
    {<<<<"p", "o", "r", "n">>>>,
     <<<<"p", "o", "r", "n", "o", "g", "r", "a", "p", "h", "y">>>>,
     <<<<"x", "x", "x">>>>, <<<<"n", "s", "f", "w">>>>,
     <<<<"c", "a", "m", "g", "i", "r", "l">>>>, <<<<"c", "a", "m", "s">>>>,
     <<<<"n", "u", "d", "e">>>>, <<<<"n", "u", "d", "e", "s">>>>, <<<<"s", "e", "x">>>>,
     <<<<"p", "o", "r", "n", "h", "u", "b">>>>,
     <<<<"x", "v", "i", "d", "e", "o", "s">>>>,
     <<<<"x", "h", "a", "m", "s", "t", "e", "r">>>>, <<<<"a", "d", "u", "l", "t">>>>,
     <<<<"e", "x", "p", "l", "i", "c", "i", "t">>>>,
     <<<<"b", "r", "e", "a", "s", "t">>>>, <<<<"c", "o", "c", "k">>>>,
     <<<<"p", "u", "s", "s", "y">>>>}

\* line 121
NSFW_REGEX(s) == MatchesPhrase(ToLowerCase(s), NSFW_KEYWORDS)

\* lines 127-129
HATE_KEYWORDS ==
    {<<<<"n", "i", "g", "g", "e", "r">>>>, <<<<"c", "h", "i", "n", "k">>>>,
     <<<<"k", "i", "k", "e">>>>, <<<<"s", "p", "i", "c">>>>,
     <<<<"w", "e", "t", "b", "a", "c", "k">>>>, <<<<"g", "o", "o", "k">>>>,
     <<<<"r", "a", "g", "h", "e", "a", "d">>>>, <<<<"h", "o", "n", "k", "y">>>>,
     <<<<"f", "a", "g", "g", "o", "t">>>>, <<<<"f", "a", "g">>>>,
     <<<<"c", "o", "o", "n">>>>, <<<<"p", "a", "k", "i">>>>}

\* line 130
HATE_REGEX(s) == MatchesPhrase(ToLowerCase(s), HATE_KEYWORDS)

\* line 123: /\bhttps?:\/\/\S+\b/i
SPAM_LINKS_REGEX(s) ==
    LET low == ToLowerCase(s) IN
    \E i \in 0..Len(s) :
        /\ WordBoundary(s, i)
        /\ \E h \in {<<"h", "t", "t", "p", ":", "/", "/">>,
                    <<"h", "t", "t", "p", "s", ":", "/", "/">>} :
              /\ At(low, i, h)
              /\ \E j \in NonSpacesFrom(s, i + Len(h)) : WordBoundary(s, j)

\* line 135
HATE_ALLOWLIST ==
    {<<"n", "i", "g", "g", "a">>, <<"s", "w", "e", "a", "t", "s">>,
     <<"s", "w", "e", "a", "t">>, <<"s", "w", "e", "a", "t", "i", "e", "s">>,
     <<"s", "w", "e", "a", "t", "y">>}

\* what lines 426-442 and 1679-1681 test of a message text
PolicyFacts(text) ==
    LET c == Trim(text) IN
    [ empty       |-> c = <<>>,
      len         |-> Len(c),
      affirmation |-> AFFIRMATION_REGEX(c),
      betSignal   |-> BETTING_SIGNAL_REGEX(c),
      betLikely   |-> BETTING_LIKELY_REGEX(c),
      nsfw        |-> NSFW_REGEX(c),
      hate        |-> HATE_REGEX(c),
      link        |-> SPAM_LINKS_REGEX(c),
      allow       |-> \E w \in HATE_ALLOWLIST : Includes(ToLowerCase(text), w) ]

\* (mutant) the rules without the affirmation guard
PolicyRulesNoGuard(f, sampled) ==
    IF f.empty THEN FALSE
    ELSE IF f.betSignal THEN TRUE
    ELSE IF f.betLikely THEN TRUE
    ELSE IF f.nsfw \/ f.hate THEN TRUE
    ELSE IF f.len > 120 /\ f.link THEN TRUE
    ELSE sampled

\* lines 425-452: the rules in their order; sampled is Math.random() < rate
PolicyRules(f, sampled) ==
    IF f.empty THEN FALSE
    ELSE IF f.len <= 20 /\ f.affirmation THEN FALSE
    ELSE IF f.betSignal THEN TRUE
    ELSE IF f.betLikely THEN TRUE
    ELSE IF f.nsfw \/ f.hate THEN TRUE
    ELSE IF f.len > 120 /\ f.link THEN TRUE
    ELSE sampled

----------------------------------------------------------------------------
(* Configuration and bounds of the message pipeline                        *)

\* runs of the messageCreate handler (Spec)
MaxRuns == 2

\* runs with the flood detector, which needs three equal messages (SpecEscalate)
MaxFloodRuns == 3

\* requests at the gateway (SpecGateway)
MaxGatewayRuns == 2

\* requests of one budget and one more (SpecBudget)
MaxBudgetRuns == 3

\* clock ticks
MaxTicks == 2

\* calls of decideAndApplyStrike (SpecAdjudicate)
MaxAdjudications == 3

CACHE_TTL_MS == 10 * 60 * 1000

PERM_MUTE_THRESHOLD == 5

STRIKE_DECAY_DAYS == 30

\* line 49
ACCOUNT_AGE_LIMIT_DAYS == 30

SPAM_WINDOW_MS == 10 * 1000

SPAM_THRESHOLD == 5

REPEAT_THRESHOLD == 3

AUTO_MUTE_MINUTES == 10

\* line 202: the length of a budget window
WindowMs == 60 * 1000

\* line 1518
SEVENTY_TWO_HOURS == 72 * 60 * 60 * 1000

TickMs == 30 * 1000

\* a duration of the code, given in milliseconds, in seconds
Sec(ms) == ms \div 1000

\* the clock when the process starts
StartSec == 100 * 1

Max(a, b) == IF a > b THEN a ELSE b

\* allowlisted messages of a member who is not in quarantine (SpecAllowlist)
MaxAllowRuns == 2

RunIds ==
    1..Max(Max(Max(MaxRuns, MaxBudgetRuns), Max(MaxFloodRuns, MaxGatewayRuns)),
           Max(MaxAdjudications, MaxAllowRuns + 2))

Runs == 1..MaxRuns

\* members: u1 starts one strike short of the threshold, u2 with none
Users == {"u1", "u2"}

PriorStrikes == [u \in Users |-> IF u = "u1" THEN PERM_MUTE_THRESHOLD - 1 ELSE 0]

\* message texts, by name
Texts == {"picks", "hello", "sweaty"}

\* further texts, for the specifications that name them
AllTexts == Texts \cup {"bet", "slur", "codes", "fives"}

\* message.content of the text named t
TextOf(t) ==
    CASE t = "picks" -> <<"d", "m", " ", "f", "o", "r", " ", "p", "i", "c", "k", "s", ",", " ", "$", "2", "0", " ", "e", "a", "c", "h">>
      [] t = "hello" -> <<"h", "e", "l", "l", "o", " ", "t", "h", "e", "r", "e">>
      [] t = "sweaty" -> <<"s", "w", "e", "a", "t", "y", " ", "l", "o", "b", "b", "y">>
      [] t = "bet" -> <<"a", "l", "r", "i", "g", "h", "t", " ", "b", "e", "t">>
      [] t = "codes" -> <<"C", "o", "d", "e", "s", " ", "4", "4", "1", "1">>
      [] t = "fives" -> <<"5", "v", "5", " ", "t", "o", "n", "i", "g", "h", "t", "?">>
      [] OTHER -> <<"y", "o", "u", " ", "h", "o", "n", "k", "y">>

\* what the patterns say of each text
TextFacts == [t \in AllTexts |-> PolicyFacts(TextOf(t))]

\* lines 425-452 for the text named t
ShouldCheckByPolicy(t, sampled) == PolicyRules(TextFacts[t], sampled)

\* lines 1678-1682: a hate result on a text with allowlisted words and no severe slur
AllowlistOnly(t, res) ==
    /\ res.flagged /\ res.category = "FLAG_HATE"
    /\ TextFacts[t].allow /\ ~TextFacts[t].hate

\* what the classifier may answer, by name
ClassifierAnswers == {"ok", "flag_bet", "flag_hate", "flag", "junk", "empty"}

RawText(a) ==
    CASE a = "ok" -> R_OK
      [] a = "flag_bet" -> R_FlagBet
      [] a = "flag_hate" -> R_FlagHate
      [] a = "flag" -> R_Flag
      [] a = "empty" -> R_Empty
      [] OTHER -> R_Junk

\* what the adjudicator may answer, by name
VerifyAnswers == {"strike", "no_strike", "no_strike_lower", "unclear"}

VerifyText(a) ==
    CASE a = "strike" -> V_Strike
      [] a = "no_strike" -> V_NoStrike
      [] a = "no_strike_lower" -> V_NoStrikeLower
      [] OTHER -> V_Unclear

NoEntry == [flagged |-> FALSE, category |-> "absent", ts |-> 0]

NoResult == [flagged |-> FALSE, category |-> "none"]

\* verifyStrikeDecision has not returned
NoVerification == [strike |-> FALSE, reason |-> "none"]

\* the strike rows that exist when the model starts
EarlierStrikes ==
    {[id |-> 0 - p[2], userId |-> p[1], category |-> "FLAG_SPAM", reason |-> "earlier",
      messageId |-> 0, createdAt |-> StartSec, pardoned |-> FALSE] :
        p \in {q \in Users \X (1..PERM_MUTE_THRESHOLD) : q[2] <= PriorStrikes[q[1]]}}

\* a day, in seconds
DaySec == 24 * 60 * 60

\* no sweep is in progress
NoMap == [u \in Users |-> -1]

NoSweep == [pc |-> "idle", left |-> {}, startedAt |-> -1, map |-> NoMap]

\* every member joined before the process started, with an account older than
\* ACCOUNT_AGE_LIMIT_DAYS; no sweep runs
SweepIdle ==
    /\ members = Users
    /\ accountCreatedAt = [u \in Users |-> StartSec - (ACCOUNT_AGE_LIMIT_DAYS + 10) * DaySec]
    /\ joinedAt = [u \in Users |-> -1]
    /\ sweep = NoSweep
    /\ sweepLog = <<>>

\* no message has been delivered
PipelineStartWith(rows) ==
    /\ now = StartSec
    /\ windowStart = StartSec
    /\ callsThisWindow = 0
    /\ activeCalls = 0
    /\ pendingQueue = <<>>
    /\ messageCache = [t \in AllTexts |-> NoEntry]
    /\ pc = [r \in RunIds |-> "idle"]
    /\ author = [r \in RunIds |-> "none"]
    /\ content = [r \in RunIds |-> "none"]
    /\ messageId = [r \in RunIds |-> 0]
    /\ channel = [r \in RunIds |-> "none"]
    /\ path = [r \in RunIds |-> "none"]
    /\ result = [r \in RunIds |-> NoResult]
    /\ stage = [r \in RunIds |-> "none"]
    /\ hung = [r \in RunIds |-> FALSE]
    /\ answer = [r \in RunIds |-> "none"]
    /\ verification = [r \in RunIds |-> NoVerification]
    /\ outcome = [r \in RunIds |-> "none"]
    /\ deleted = [r \in RunIds |-> FALSE]
    /\ recentMessages = [u \in Users |-> <<>>]
    /\ strikes = rows
    /\ mutedRole = {}
    /\ muteTimers = {}
    /\ muteApplied = [r \in RunIds |-> "none"]
    /\ activeAtCreate = [r \in RunIds |-> 0]
    /\ endMuted = [r \in RunIds |-> FALSE]

PipelineStart == PipelineStartWith(EarlierStrikes)

\* items of the DM queue, by number
DmItems == 1..MaxDms

\* no processDmQueue invocation is running
NoWorker == [pc |-> "none", item |-> 0, tries |-> 0]

\* lines 1104-1105: no DM was ever queued
DmIdle ==
    /\ dmQueue = <<>>
    /\ dmInProgress = FALSE
    /\ dmWorker = NoWorker
    /\ dmResolved = [i \in DmItems |-> "none"]
    /\ dmLog = [i \in DmItems |-> [attempts |-> 0, last |-> "none"]]

\* the pipeline never runs: no message is delivered
PipelineIdle ==
    /\ PipelineStart
    /\ openai = TRUE
    /\ MAX_OPENAI_PER_MIN = 600
    /\ CONCURRENCY = 3
    /\ quarRole = {}
    /\ quarantineMap = [u \in Users |-> -1]
    /\ SweepIdle
    /\ trace = <<>>
    /\ DmIdle

----------------------------------------------------------------------------
(* createTicketChannel: promise lock per (guildId:userId)                  *)

\* A call that installed a lock owns the lock object with its own number;
\* the channel a call creates carries the call's number as its id.

TInit ==
    /\ tpc = [c \in TCalls |-> "idle"]
    /\ lockInMap = 0
    /\ lockResolved = [c \in TCalls |-> FALSE]
    /\ lockTimer = [c \in TCalls |-> "none"]
    /\ waitOn = [c \in TCalls |-> 0]
    /\ chanExists = [c \in TCalls |-> FALSE]
    /\ rowState = [c \in TCalls |-> "none"]
    /\ ret = [c \in TCalls |-> 0]
    /\ ownerUniq \in BOOLEAN
    /\ uniqueSeen = [c \in TCalls |-> FALSE]

\* no createTicketChannel call is made
TicketIdle ==
    /\ tpc = [c \in TCalls |-> "idle"]
    /\ lockInMap = 0
    /\ lockResolved = [c \in TCalls |-> FALSE]
    /\ lockTimer = [c \in TCalls |-> "none"]
    /\ waitOn = [c \in TCalls |-> 0]
    /\ chanExists = [c \in TCalls |-> FALSE]
    /\ rowState = [c \in TCalls |-> "none"]
    /\ ret = [c \in TCalls |-> 0]
    /\ ownerUniq = FALSE
    /\ uniqueSeen = [c \in TCalls |-> FALSE]

\* getOpenTicketByOwner: the open rows of the owner (findFirst returns one of them)
OpenTickets == {n \in TCalls : rowState[n] = "open"}

\* findFirst({guildId, ownerId, closedAt: null}): one open row, or null (0)
PickOpen == IF OpenTickets = {} THEN {0} ELSE OpenTickets

\* lines 781-792: the lock object, its TTL timer, ticketCreationLocks.set(lockKey, lockObj)
InstallLock(c) ==
    /\ lockTimer' = [lockTimer EXCEPT ![c] = "armed"]
    /\ lockInMap' = c

\* lines 889-896: the finally block releases whatever lock is stored under the key
ReleaseResolved ==
    IF lockInMap # 0 THEN [lockResolved EXCEPT ![lockInMap] = TRUE] ELSE lockResolved

ReleaseTimer ==
    IF lockInMap # 0 THEN [lockTimer EXCEPT ![lockInMap] = "cleared"] ELSE lockTimer

\* leaving the try block with result r (a channel, or -1 for a throw), through finally
TFinally(c, r) ==
    /\ lockResolved' = ReleaseResolved
    /\ lockTimer' = ReleaseTimer
    /\ lockInMap' = 0
    /\ tpc' = [tpc EXCEPT ![c] = "done"]
    /\ ret' = [ret EXCEPT ![c] = r]

\* (mutant) entry that never looks the key up and installs its lock at once
TEnterNoWait(c) ==
    /\ tpc[c] = "idle"
    /\ IF c = 1 THEN TRUE ELSE tpc[c - 1] # "idle"
    /\ InstallLock(c)
    /\ tpc' = [tpc EXCEPT ![c] = "precheck"]
    /\ UNCHANGED <<waitOn, lockResolved, chanExists, rowState, ret, ownerUniq, uniqueSeen>>
    /\ UNCHANGED <<gvars, rvars, mvars, svars, trace, dvars>>

\* lines 767-772 and 781-792: entry.  With a lock under the key the call awaits
\* that lock's promise; without one it installs its own lock at once.
TEnter(c) ==
    /\ tpc[c] = "idle"
    /\ IF c = 1 THEN TRUE ELSE tpc[c - 1] # "idle"
    /\ IF lockInMap # 0
         THEN /\ waitOn' = [waitOn EXCEPT ![c] = lockInMap]
              /\ tpc' = [tpc EXCEPT ![c] = "waiting"]
              /\ UNCHANGED <<lockInMap, lockTimer>>
         ELSE /\ InstallLock(c)
              /\ tpc' = [tpc EXCEPT ![c] = "precheck"]
              /\ UNCHANGED waitOn
    /\ UNCHANGED <<lockResolved, chanExists, rowState, ret, ownerUniq, uniqueSeen>>
    /\ UNCHANGED <<gvars, rvars, mvars, svars, trace, dvars>>

\* line 772: the awaited promise has been resolved; the call goes on to query the table
TWake(c) ==
    /\ tpc[c] = "waiting"
    /\ lockResolved[waitOn[c]]
    /\ tpc' = [tpc EXCEPT ![c] = "recheck"]
    /\ UNCHANGED <<lockInMap, lockResolved, lockTimer, waitOn, chanExists, rowState,
                   ret, ownerUniq, uniqueSeen>>
    /\ UNCHANGED <<gvars, rvars, mvars, svars, trace, dvars>>

\* lines 773-792: after the wait, return the existing ticket's channel if there is
\* one; otherwise fall through and install a lock (the key is not looked up again)
TRecheck(c) ==
    /\ tpc[c] = "recheck"
    /\ \E t \in PickOpen :
         IF t # 0 /\ chanExists[t]
           THEN /\ tpc' = [tpc EXCEPT ![c] = "done"]
                /\ ret' = [ret EXCEPT ![c] = t]
                /\ UNCHANGED <<lockInMap, lockTimer>>
           ELSE /\ InstallLock(c)
                /\ tpc' = [tpc EXCEPT ![c] = "precheck"]
                /\ UNCHANGED ret
    /\ UNCHANGED <<lockResolved, waitOn, chanExists, rowState, ownerUniq, uniqueSeen>>
    /\ UNCHANGED <<gvars, rvars, mvars, svars, trace, dvars>>

\* lines 795-804: pre-check inside the lock
TPrecheck(c) ==
    /\ tpc[c] = "precheck"
    /\ \E t \in PickOpen :
         IF t # 0 /\ chanExists[t]
           THEN /\ TFinally(c, t)
                /\ UNCHANGED rowState
           ELSE /\ rowState' = IF t # 0 THEN [rowState EXCEPT ![t] = "closed"]
                                        ELSE rowState
                /\ tpc' = [tpc EXCEPT ![c] = "createChannel"]
                /\ UNCHANGED <<lockInMap, lockResolved, lockTimer, ret>>
    /\ UNCHANGED <<waitOn, chanExists, ownerUniq, uniqueSeen>>
    /\ UNCHANGED <<gvars, rvars, mvars, svars, trace, dvars>>

\* lines 806-826: category lookup and guild.channels.create; either may throw
TCreateChannel(c) ==
    /\ tpc[c] = "createChannel"
    /\ \/ /\ chanExists' = [chanExists EXCEPT ![c] = TRUE]
          /\ tpc' = [tpc EXCEPT ![c] = "insert"]
          /\ UNCHANGED <<lockInMap, lockResolved, lockTimer, ret>>
       \/ /\ TFinally(c, -1)
          /\ UNCHANGED chanExists
    /\ UNCHANGED <<waitOn, rowState, ownerUniq, uniqueSeen>>
    /\ UNCHANGED <<gvars, rvars, mvars, svars, trace, dvars>>

\* the table's answer to an insert for this owner: a uniqueness violation
UniqueViolation == ownerUniq /\ OpenTickets # {}

\* lines 828-855: createTicketRow; unique violation, other error (rethrown), or success
TInsert(c) ==
    /\ tpc[c] = "insert"
    /\ \/ /\ UniqueViolation
          /\ tpc' = [tpc EXCEPT ![c] = "uniq"]
          /\ uniqueSeen' = [uniqueSeen EXCEPT ![c] = TRUE]
          /\ UNCHANGED <<rowState, lockInMap, lockResolved, lockTimer, ret>>
       \/ /\ ~UniqueViolation
          /\ rowState' = [rowState EXCEPT ![c] = "open"]
          /\ tpc' = [tpc EXCEPT ![c] = "announce"]
          /\ UNCHANGED <<lockInMap, lockResolved, lockTimer, ret, uniqueSeen>>
       \/ /\ TFinally(c, -1)
          /\ UNCHANGED <<rowState, uniqueSeen>>
    /\ UNCHANGED <<waitOn, chanExists, ownerUniq>>
    /\ UNCHANGED <<gvars, rvars, mvars, svars, trace, dvars>>

\* lines 833-844: on a unique violation look the owner's open ticket up; if it is
\* another channel, delete the one just created (the delete may fail) and return
\* the existing channel
TUniqueRecoverWith(c, lookups, removals) ==
    /\ tpc[c] = "uniq"
    /\ \E t \in lookups :
         IF t # 0 /\ t # c
           THEN \E removed \in removals :
                  /\ chanExists' = IF removed THEN [chanExists EXCEPT ![c] = FALSE]
                                              ELSE chanExists
                  /\ IF chanExists[t]
                       THEN TFinally(c, t)
                       ELSE /\ tpc' = [tpc EXCEPT ![c] = "insert2"]
                            /\ UNCHANGED <<lockInMap, lockResolved, lockTimer, ret>>
           ELSE /\ tpc' = [tpc EXCEPT ![c] = "insert2"]
                /\ UNCHANGED <<chanExists, lockInMap, lockResolved, lockTimer, ret>>
    /\ UNCHANGED <<waitOn, rowState, ownerUniq, uniqueSeen>>
    /\ UNCHANGED <<gvars, rvars, mvars, svars, trace, dvars>>

\* lines 833-844, the lookup and the delete failing or not
TUniqueRecover(c) == TUniqueRecoverWith(c, PickOpen \cup {0}, BOOLEAN)

\* lines 833-844, the lookup and the delete succeeding
TUniqueRecoverClean(c) == TUniqueRecoverWith(c, PickOpen, {TRUE})

\* lines 845-850: second, best-effort insert; its failure is only logged
TInsertAgain(c) ==
    /\ tpc[c] = "insert2"
    /\ \/ /\ ~UniqueViolation
          /\ rowState' = [rowState EXCEPT ![c] = "open"]
       \/ /\ UNCHANGED rowState
    /\ tpc' = [tpc EXCEPT ![c] = "announce"]
    /\ UNCHANGED <<lockInMap, lockResolved, lockTimer, waitOn, chanExists, ret, ownerUniq,
                   uniqueSeen>>
    /\ UNCHANGED <<gvars, rvars, mvars, svars, trace, dvars>>

\* lines 857-896: header message and logs, then return channel; a failed send throws
TAnnounce(c) ==
    /\ tpc[c] = "announce"
    /\ \/ TFinally(c, c)
       \/ TFinally(c, -1)
    /\ UNCHANGED <<waitOn, chanExists, rowState, ownerUniq, uniqueSeen>>
    /\ UNCHANGED <<gvars, rvars, mvars, svars, trace, dvars>>

\* lines 857-896 with a platform that accepts every send to a channel that
\* exists: the header of a channel that was deleted cannot be sent, and the
\* catch of line 886 throws the error on to the caller
TAnnounceSent(c) ==
    /\ tpc[c] = "announce"
    /\ IF chanExists[c] THEN TFinally(c, c) ELSE TFinally(c, -1)
    /\ UNCHANGED <<waitOn, chanExists, rowState, ownerUniq, uniqueSeen>>
    /\ UNCHANGED <<gvars, rvars, mvars, svars, trace, dvars>>

\* the channel of an open ticket is deleted by hand; its row stays open
ChannelGone(t) ==
    /\ chanExists[t]
    /\ rowState[t] = "open"
    /\ chanExists' = [chanExists EXCEPT ![t] = FALSE]
    /\ UNCHANGED <<tpc, lockInMap, lockResolved, lockTimer, waitOn, rowState, ret,
                   ownerUniq, uniqueSeen>>
    /\ UNCHANGED <<gvars, rvars, mvars, svars, trace, dvars>>

\* (mutant) a TTL timer that deletes the key's entry without resolving the lock
TTtlFireNoResolve(l) ==
    /\ lockTimer[l] = "armed"
    /\ lockTimer' = [lockTimer EXCEPT ![l] = "fired"]
    /\ lockInMap' = 0
    /\ UNCHANGED <<lockResolved, tpc, waitOn, chanExists, rowState, ret, ownerUniq,
                   uniqueSeen>>
    /\ UNCHANGED <<gvars, rvars, mvars, svars, trace, dvars>>

\* lines 788-791: the TTL timer of lock l resolves l and deletes the key's entry
TTtlFire(l) ==
    /\ lockTimer[l] = "armed"
    /\ lockResolved' = [lockResolved EXCEPT ![l] = TRUE]
    /\ lockTimer' = [lockTimer EXCEPT ![l] = "fired"]
    /\ lockInMap' = 0
    /\ UNCHANGED <<tpc, waitOn, chanExists, rowState, ret, ownerUniq, uniqueSeen>>
    /\ UNCHANGED <<gvars, rvars, mvars, svars, trace, dvars>>

\* the steps of the calls in S (and the TTL timers of their locks)
TStep(S) ==
    \/ \E c \in S : TEnter(c)
    \/ \E c \in S : TWake(c)
    \/ \E c \in S : TRecheck(c)
    \/ \E c \in S : TPrecheck(c)
    \/ \E c \in S : TCreateChannel(c)
    \/ \E c \in S : TInsert(c)
    \/ \E c \in S : TUniqueRecover(c)
    \/ \E c \in S : TInsertAgain(c)
    \/ \E c \in S : TAnnounce(c)
    \/ \E l \in S : TTtlFire(l)

TNext == TStep(TCalls)

\* any number of calls up to MaxTicketCalls on the one key
\* no message is handled while the tickets are created
TicketInit == TInit /\ PipelineIdle

SpecTicket == TicketInit /\ [][TNext]_vars

\* the requests of a pair of callers
TNextPair == TStep(PairCalls)

\* the calls on a platform and a table that fail no request, with ticket
\* channels that may be deleted by hand
TNextStale ==
    \/ \E c \in TCalls : TEnter(c)
    \/ \E c \in TCalls : TWake(c)
    \/ \E c \in TCalls : TRecheck(c)
    \/ \E c \in TCalls : TPrecheck(c)
    \/ \E c \in TCalls : TCreateChannel(c)
    \/ \E c \in TCalls : TInsert(c)
    \/ \E c \in TCalls : TUniqueRecoverClean(c)
    \/ \E c \in TCalls : TInsertAgain(c)
    \/ \E c \in TCalls : TAnnounceSent(c)
    \/ \E l \in TCalls : TTtlFire(l)
    \/ \E t \in TCalls : ChannelGone(t)

SpecTicketPair == TicketInit /\ [][TNextPair]_vars

SpecTicketStale == TicketInit /\ [][TNextStale]_vars

\* Timers fire and a resolved promise wakes its waiters; nothing makes a
\* platform or database call return, so the steps of a creation have no fairness.
FairSpecTicketPair ==
    /\ TicketInit
    /\ [][TNextPair]_vars
    /\ \A l \in PairCalls : WF_vars(TTtlFire(l))
    /\ \A c \in PairCalls : WF_vars(TWake(c))

----------------------------------------------------------------------------
(* Rate window, cache, queue: lines 181-301                                *)

\* the state the gateway functions read and write, as one value
G == [queue |-> pendingQueue, active |-> activeCalls, ws |-> windowStart,
      calls |-> callsThisWindow, cache |-> messageCache, pc |-> pc,
      result |-> result, stage |-> stage, outcome |-> outcome]

SetG(g) ==
    /\ pendingQueue' = g.queue
    /\ activeCalls' = g.active
    /\ windowStart' = g.ws
    /\ callsThisWindow' = g.calls
    /\ messageCache' = g.cache
    /\ pc' = g.pc
    /\ result' = g.result
    /\ stage' = g.stage
    /\ outcome' = g.outcome

\* lines 201-205: a new window once 60 s have passed since windowStart
\* (mutant) a window that is reset by every call made after its start
RolledEarly(g) ==
    IF now > g.ws THEN [g EXCEPT !.ws = now, !.calls = 0] ELSE g

Rolled(g) ==
    IF now - g.ws >= Sec(WindowMs) THEN [g EXCEPT !.ws = now, !.calls = 0] ELSE g

\* lines 200-209: the value allowOpenAICall returns
AllowOk(g) == Rolled(g).calls < MAX_OPENAI_PER_MIN

\* lines 200-209: the state allowOpenAICall leaves
AllowOpenAICall(g) ==
    IF AllowOk(g) THEN [Rolled(g) EXCEPT !.calls = @ + 1] ELSE Rolled(g)

\* a cacheGet that returns an entry of any age
CacheGetAnyAge(g, t) == g.cache[t]

\* lines 187-195: the value cacheGet returns
CacheGet(g, t) ==
    IF g.cache[t] = NoEntry THEN NoEntry
    ELSE IF now - g.cache[t].ts > Sec(CACHE_TTL_MS) THEN NoEntry
    ELSE g.cache[t]

\* lines 190-192: cacheGet deletes an expired entry
CacheGetG(g, t) == [g EXCEPT !.cache[t] = CacheGet(g, t)]

\* lines 196-198
CacheSet(g, t, res) ==
    [g EXCEPT !.cache[t] = [flagged |-> res.flagged, category |-> res.category,
                            ts |-> now]]

RECURSIVE ProcessQueue(_)
RECURSIVE PerformOpenAICall(_, _)
RECURSIVE Resolved(_, _, _, _)

\* lines 218-231: one invocation of processQueue up to its next pending await.
\* An item whose performOpenAICall settles without an external call is resolved
\* and the loop goes on; an item that starts an external call suspends the loop.
ProcessQueue(g) ==
    IF g.active < CONCURRENCY /\ g.queue # <<>>
      THEN PerformOpenAICall([g EXCEPT !.queue = Tail(@), !.active = @ + 1],
                             Head(g.queue))
      ELSE g

\* (mutant) a direct call whose finally block frees the slot and does not call
\* processQueue
ResolvedNoDrain(g, r, res, how) ==
    LET g1 == [g EXCEPT !.result[r] = res, !.stage[r] = "none",
                        !.pc[r] = "enforce", !.outcome[r] = how]
    IN IF path[r] = "quar" THEN g1
       ELSE IF path[r] = "direct" THEN [g1 EXCEPT !.active = @ - 1]
       ELSE ProcessQueue([g1 EXCEPT !.active = @ - 1])

\* the request of run r settles with res: its awaiting handler continues at the
\* enforcement step.  Lines 1666-1669 (direct: finally, processQueue()) and
\* 224-229 (queue: resolve, finally, next turn of the loop); the quarantine path
\* (line 1547) holds no slot.
Resolved(g, r, res, how) ==
    LET g1 == [g EXCEPT !.result[r] = res, !.stage[r] = "none",
                        !.pc[r] = "enforce", !.outcome[r] = how]
    IN IF path[r] = "quar" THEN g1
       ELSE ProcessQueue([g1 EXCEPT !.active = @ - 1])

\* (mutant) a request that cannot be sent is answered with a flag
FailClosed(g, r, how) ==
    Resolved(CacheSet(g, content[r], Result("FLAG_SPAM")), r, Result("FLAG_SPAM"), how)

\* (mutant) a request that cannot be sent is answered OK and nothing is cached
FailOpenUncached(g, r, how) ==
    Resolved(g, r, ResultOK, how)

\* lines 238-240 and 243-245: a request that cannot be sent is answered OK,
\* and the OK is cached
FailOpen(g, r, how) ==
    Resolved(CacheSet(g, content[r], ResultOK), r, ResultOK, how)

\* lines 233-251: performOpenAICall for run r up to its first await
PerformOpenAICall(g, r) ==
    LET t  == content[r]
        e  == CacheGet(g, t)
        g1 == CacheGetG(g, t)
        g2 == AllowOpenAICall(g1)
    IN IF e # NoEntry
         THEN Resolved(g1, r, [flagged |-> e.flagged, category |-> e.category], "cached")
       ELSE IF ~AllowOk(g1)
         THEN FailOpen(g2, r, "capped")
       ELSE IF ~openai
         THEN FailOpen(g2, r, "unconfigured")
       ELSE [g2 EXCEPT !.pc[r] = "call", !.stage[r] = "chat", !.outcome[r] = "sent"]

\* (mutant) a failure of both strategies that escapes performOpenAICall
BothFailedRejects(g, r) ==
    Resolved(g, r, [flagged |-> FALSE, category |-> "rejected"], "failed")

\* lines 270-274: both strategies failed
BothFailed(g, r) ==
    Resolved(CacheSet(g, content[r], ResultOK), r, ResultOK, "failed")

\* lines 277-295: the answer is mapped, cached and returned
Answered(g, r, raw) ==
    Resolved(CacheSet(g, content[r], Result(MapCategory(raw))), r,
             Result(MapCategory(raw)), "answered")

----------------------------------------------------------------------------
(* Flood window, strikes, mutes                                            *)

RECURSIVE Prune(_)
\* line 1405: drop the entries older than the flood window from the front
Prune(arr) ==
    IF arr # <<>> /\ now - Head(arr).ts > Sec(SPAM_WINDOW_MS) THEN Prune(Tail(arr)) ELSE arr

\* lines 1400-1408
AddRecentMessage(arr, t) == Prune(Append(arr, [content |-> t, ts |-> now]))

\* lines 1409-1417
CheckSpam(arr) ==
    \/ Len(arr) >= SPAM_THRESHOLD
    \/ \E t \in AllTexts :
         Cardinality({i \in 1..Len(arr) : arr[i].content = t}) >= REPEAT_THRESHOLD

\* lines 670-682: the row createStrike inserts for the message of run r
StrikeRow(r, category, reason) ==
    [id |-> r, userId |-> author[r], category |-> category, reason |-> reason,
     messageId |-> messageId[r], createdAt |-> now, pardoned |-> FALSE]

\* the count with a cutoff that the boundary passes
CountFromCutoff(rows, u) ==
    Cardinality({st \in rows : /\ st.userId = u
                               /\ ~st.pardoned
                               /\ st.createdAt >= now - STRIKE_DECAY_DAYS * DaySec})

\* lines 684-695
CountActiveStrikes(rows, u) ==
    Cardinality({s \in rows : /\ s.userId = u
                              /\ ~s.pardoned
                              /\ s.createdAt > now - STRIKE_DECAY_DAYS * 24 * 60 * 60})

\* (mutant) a threshold test that needs one strike more
ReachedThresholdStrict(count) == count > PERM_MUTE_THRESHOLD

\* lines 395 and 1606
ReachedThreshold(count) == count >= PERM_MUTE_THRESHOLD

\* lines 606-623: muteMember adds the role and arms the unmute timer
MuteMember(u, minutes) ==
    /\ mutedRole' = mutedRole \cup {u}
    /\ muteTimers' = muteTimers \cup {[user |-> u, at |-> now + minutes * 60]}

\* the Muted role of a run's author at the moment the run ends
RecordEnd ==
    endMuted' = [r \in RunIds |->
                    IF pc'[r] = "done" /\ pc[r] # "done"
                      THEN author'[r] \in mutedRole'
                      ELSE endMuted[r]]

----------------------------------------------------------------------------
(* The messageCreate handler, lines 1419-1708; one action per stretch of   *)
(* code between awaits                                                     *)

\* lines 1420-1447: a message of member u with text t is delivered
Receive(r, U, T) ==
    /\ pc[r] = "idle"
    /\ IF r = 1 THEN TRUE ELSE pc[r - 1] # "idle"
    /\ \E u \in U, t \in T :
         /\ author' = [author EXCEPT ![r] = u]
         /\ content' = [content EXCEPT ![r] = t]
         /\ messageId' = [messageId EXCEPT ![r] = r]
         /\ channel' = [channel EXCEPT ![r] = "general"]
         /\ pc' = [pc EXCEPT ![r] = IF u \in quarRole THEN "quarantine" ELSE "screen"]
         /\ path' = [path EXCEPT ![r] = IF u \in quarRole THEN "quar" ELSE "none"]
    /\ UNCHANGED <<gvars, result, stage, hung, answer, verification, outcome, deleted>>
    /\ UNCHANGED <<recentMessages, strikes, mutedRole, muteTimers, muteApplied, quarRole,
                   quarantineMap, activeAtCreate>>
    /\ RecordEnd
    /\ UNCHANGED <<tvars, svars, trace, dvars>>

\* lines 1515-1585: a message of a quarantined member
Quarantine(r) ==
    LET u   == author[r]
        t   == content[r]
        ts  == IF quarantineMap[u] > 0 THEN quarantineMap[u] ELSE now
        e   == CacheGet(G, t)
        g1  == CacheGetG(G, t)
    IN
    /\ pc[r] = "quarantine"
    /\ IF now - ts < Sec(SEVENTY_TWO_HOURS)
         THEN /\ IF e # NoEntry
                   THEN IF e.flagged
                          THEN SetG([g1 EXCEPT !.pc[r] = "enforce",
                                               !.outcome[r] = "cacheHit",
                                               !.result[r] = [flagged |-> e.flagged,
                                                              category |-> e.category]])
                          ELSE SetG([g1 EXCEPT !.pc[r] = "done", !.outcome[r] = "cacheHit"])
                 ELSE IF AllowOk(g1)
                   THEN SetG(PerformOpenAICall(AllowOpenAICall(g1), r))
                   ELSE SetG([Rolled(g1) EXCEPT !.pc[r] = "done",
                                                !.outcome[r] = "skipped"])
              /\ UNCHANGED <<quarRole, quarantineMap>>
         ELSE /\ quarRole' = quarRole \ {u}
              /\ quarantineMap' = [quarantineMap EXCEPT ![u] = -1]
              /\ SetG([G EXCEPT !.pc[r] = "done"])
    /\ UNCHANGED <<now, cfg, author, content, messageId, channel, path, hung, answer, verification,
                   deleted>>
    /\ UNCHANGED <<recentMessages, strikes, mutedRole, muteTimers, muteApplied,
                   activeAtCreate>>
    /\ RecordEnd
    /\ UNCHANGED <<tvars, svars, trace, dvars>>

\* lines 1587-1653: flood tracking, cache lookup, prefilter
Screen(r) ==
    LET u   == author[r]
        t   == content[r]
        arr == AddRecentMessage(recentMessages[u], t)
        e   == CacheGet(G, t)
        g1  == CacheGetG(G, t)
    IN
    /\ pc[r] = "screen"
    /\ recentMessages' = [recentMessages EXCEPT ![u] = arr]
    /\ IF CheckSpam(arr)
         THEN /\ SetG([G EXCEPT !.pc[r] = "floodPunish"])
              /\ path' = [path EXCEPT ![r] = "flood"]
         ELSE IF e # NoEntry
           THEN /\ IF e.flagged
                     THEN SetG([g1 EXCEPT !.pc[r] = "enforce",
                                          !.outcome[r] = "cacheHit",
                                          !.result[r] = [flagged |-> e.flagged,
                                                         category |-> e.category]])
                     ELSE SetG([g1 EXCEPT !.pc[r] = "done", !.outcome[r] = "cacheHit"])
                /\ path' = [path EXCEPT ![r] = "cache"]
           ELSE /\ \E sampled \in BOOLEAN :
                     IF ShouldCheckByPolicy(t, sampled)
                       THEN SetG([g1 EXCEPT !.pc[r] = "budget"])
                       ELSE SetG([g1 EXCEPT !.pc[r] = "done", !.outcome[r] = "skip"])
                /\ UNCHANGED path
    /\ UNCHANGED <<now, cfg, author, content, messageId, channel, hung, answer, verification,
                   deleted>>
    /\ UNCHANGED <<strikes, mutedRole, muteTimers, muteApplied, quarRole, quarantineMap,
                   activeAtCreate>>
    /\ RecordEnd
    /\ UNCHANGED <<tvars, svars, trace, dvars>>

\* lines 1654-1663 and 1671-1672: client check, budget, slot or queue
Budget(r) ==
    LET g == AllowOpenAICall(G) IN
    /\ pc[r] = "budget"
    /\ IF ~openai
         THEN /\ SetG([G EXCEPT !.pc[r] = "done", !.outcome[r] = "missing"])
              /\ UNCHANGED path
         ELSE IF ~AllowOk(G)
           THEN /\ SetG([g EXCEPT !.pc[r] = "done", !.outcome[r] = "skipped"])
                /\ UNCHANGED path
         ELSE IF g.active < CONCURRENCY
           THEN /\ SetG([g EXCEPT !.active = @ + 1, !.pc[r] = "direct"])
                /\ path' = [path EXCEPT ![r] = "direct"]
           ELSE /\ SetG([g EXCEPT !.pc[r] = "enqueue"])
                /\ path' = [path EXCEPT ![r] = "queue"]
    /\ UNCHANGED <<now, cfg, author, content, messageId, channel, hung, answer, verification,
                   deleted>>
    /\ UNCHANGED <<recentMessages, strikes, mutedRole, muteTimers, muteApplied, quarRole,
                   quarantineMap, activeAtCreate>>
    /\ RecordEnd
    /\ UNCHANGED <<tvars, svars, trace, dvars>>

\* what the steps of the gateway leave alone
GatewayFrame ==
    /\ UNCHANGED <<now, cfg, author, content, messageId, channel, path, hung, answer, verification,
                   deleted>>
    /\ UNCHANGED <<recentMessages, strikes, mutedRole, muteTimers, muteApplied, quarRole,
                   quarantineMap, activeAtCreate>>
    /\ RecordEnd
    /\ UNCHANGED <<tvars, svars, trace, dvars>>

\* line 1665: the direct call of performOpenAICall
Direct(r) ==
    /\ pc[r] = "direct"
    /\ SetG(PerformOpenAICall(G, r))
    /\ GatewayFrame

\* lines 1673 and 211-216: enqueueOpenAICall pushes the item and runs processQueue
Enqueue(r) ==
    /\ pc[r] = "enqueue"
    /\ SetG(ProcessQueue([G EXCEPT !.queue = Append(@, r), !.pc[r] = "queued"]))
    /\ GatewayFrame

\* lines 261-263 and 337-338: chat.completions failed, responses.create is tried
ChatFail(r) ==
    /\ pc[r] \in {"call", "verifyCall"}
    /\ stage[r] = "chat"
    /\ ~hung[r]
    /\ stage' = [stage EXCEPT ![r] = "responses"]
    /\ UNCHANGED <<gvars, pc, author, content, messageId, channel, path, result, hung, answer,
                   verification, outcome,
                   deleted>>
    /\ UNCHANGED <<recentMessages, strikes, mutedRole, muteTimers, muteApplied, quarRole,
                   quarantineMap, activeAtCreate>>
    /\ RecordEnd
    /\ UNCHANGED <<tvars, svars, trace, dvars>>

\* the external call in flight is one that never returns
Hang(r) ==
    /\ pc[r] \in {"call", "verifyCall"}
    /\ ~hung[r]
    /\ hung' = [hung EXCEPT ![r] = TRUE]
    /\ UNCHANGED <<gvars, pc, author, content, messageId, channel, path, result, stage, answer,
                   verification, outcome,
                   deleted>>
    /\ UNCHANGED <<recentMessages, strikes, mutedRole, muteTimers, muteApplied, quarRole,
                   quarantineMap, activeAtCreate>>
    /\ RecordEnd
    /\ UNCHANGED <<tvars, svars, trace, dvars>>

\* lines 260 / 269 and 277-295: the classifier answered
CallReturn(r, A) ==
    /\ pc[r] = "call"
    /\ ~hung[r]
    /\ \E a \in A : SetG(Answered(G, r, RawText(a)))
    /\ GatewayFrame

\* lines 270-274: responses.create failed as well
CallFail(r) ==
    /\ pc[r] = "call"
    /\ stage[r] = "responses"
    /\ ~hung[r]
    /\ SetG(BothFailed(G, r))
    /\ GatewayFrame

\* (mutant) an enforcement that does not look at the allowlist
EnforceNoAllowlist(r) ==
    /\ pc[r] = "enforce"
    /\ IF result[r].flagged
         THEN /\ deleted' = [deleted EXCEPT ![r] = TRUE]
              /\ pc' = [pc EXCEPT ![r] = "decide"]
         ELSE /\ pc' = [pc EXCEPT ![r] = "done"]
              /\ UNCHANGED deleted
    /\ UNCHANGED <<gvars, author, content, messageId, channel, path, result, stage, hung, answer,
                   verification, outcome>>
    /\ UNCHANGED <<recentMessages, strikes, mutedRole, muteTimers, muteApplied, quarRole,
                   quarantineMap, activeAtCreate>>
    /\ RecordEnd
    /\ UNCHANGED <<tvars, svars, trace, dvars>>

\* lines 1677-1702 (also 1524-1537, 1550-1563, 1623-1635): allowlist safeguard,
\* then the flagged message is deleted
Enforce(r) ==
    LET t == content[r] IN
    /\ pc[r] = "enforce"
    /\ IF AllowlistOnly(t, result[r])
         THEN /\ result' = IF path[r] \in {"direct", "queue"}
                             THEN [result EXCEPT ![r] = ResultOK]
                             ELSE result
              /\ pc' = [pc EXCEPT ![r] = "done"]
              /\ UNCHANGED deleted
         ELSE IF result[r].flagged
           THEN /\ deleted' = [deleted EXCEPT ![r] = TRUE]
                /\ pc' = [pc EXCEPT ![r] = "decide"]
                /\ UNCHANGED result
           ELSE /\ pc' = [pc EXCEPT ![r] = "done"]
                /\ UNCHANGED <<result, deleted>>
    /\ UNCHANGED <<gvars, author, content, messageId, channel, path, stage, hung, answer,
                   verification, outcome>>
    /\ UNCHANGED <<recentMessages, strikes, mutedRole, muteTimers, muteApplied, quarRole,
                   quarantineMap, activeAtCreate>>
    /\ RecordEnd
    /\ UNCHANGED <<tvars, svars, trace, dvars>>

\* lines 378 and 310-336: decideAndApplyStrike calls verifyStrikeDecision, which
\* gives up without a client or without budget and else asks the adjudicator
Decide(r) ==
    /\ pc[r] = "decide"
    /\ IF ~openai
         THEN /\ SetG([G EXCEPT !.pc[r] = "done"])
              /\ verification' = [verification EXCEPT ![r] =
                    [strike |-> FALSE,
                     reason |-> "verification_unavailable_no_openai_lenient"]]
         ELSE IF ~AllowOk(G)
           THEN /\ SetG([AllowOpenAICall(G) EXCEPT !.pc[r] = "done"])
                /\ verification' = [verification EXCEPT ![r] =
                      [strike |-> FALSE,
                       reason |-> "verification_unavailable_rate_limited_lenient"]]
           ELSE /\ SetG([AllowOpenAICall(G) EXCEPT !.pc[r] = "verifyCall",
                                                   !.stage[r] = "chat"])
                /\ UNCHANGED verification
    /\ UNCHANGED <<now, cfg, author, content, messageId, channel, path, hung, answer, deleted>>
    /\ UNCHANGED <<recentMessages, strikes, mutedRole, muteTimers, muteApplied, quarRole,
                   quarantineMap, activeAtCreate>>
    /\ RecordEnd
    /\ UNCHANGED <<tvars, svars, trace, dvars>>

\* lines 336 / 344 and 353-360: the adjudicator answered
VerifyReturn(r, VA) ==
    /\ pc[r] = "verifyCall"
    /\ ~hung[r]
    /\ \E a \in VA :
         /\ answer' = [answer EXCEPT ![r] = a]
         /\ verification' = [verification EXCEPT ![r] = Verdict(VerifyText(a))]
         /\ pc' = [pc EXCEPT ![r] = IF Verdict(VerifyText(a)).strike
                                      THEN "createStrike" ELSE "done"]
    /\ stage' = [stage EXCEPT ![r] = "none"]
    /\ UNCHANGED <<gvars, author, content, messageId, channel, path, result, hung, outcome, deleted>>
    /\ UNCHANGED <<recentMessages, strikes, mutedRole, muteTimers, muteApplied, quarRole,
                   quarantineMap, activeAtCreate>>
    /\ RecordEnd
    /\ UNCHANGED <<tvars, svars, trace, dvars>>

\* (mutant) a strict fallback: a strike when the adjudication cannot run
VerifyFailStrikes(r) ==
    /\ pc[r] = "verifyCall"
    /\ stage[r] = "responses"
    /\ ~hung[r]
    /\ verification' = [verification EXCEPT ![r] =
          [strike |-> TRUE, reason |-> "verification_failed_both_calls_lenient"]]
    /\ pc' = [pc EXCEPT ![r] = "createStrike"]
    /\ stage' = [stage EXCEPT ![r] = "none"]
    /\ UNCHANGED <<gvars, author, content, messageId, channel, path, result, hung, answer, outcome,
                   deleted>>
    /\ UNCHANGED <<recentMessages, strikes, mutedRole, muteTimers, muteApplied, quarRole,
                   quarantineMap, activeAtCreate>>
    /\ RecordEnd
    /\ UNCHANGED <<tvars, svars, trace, dvars>>

\* lines 345-349: both strategies of the adjudication call failed
VerifyFail(r) ==
    /\ pc[r] = "verifyCall"
    /\ stage[r] = "responses"
    /\ ~hung[r]
    /\ verification' = [verification EXCEPT ![r] =
          [strike |-> FALSE, reason |-> "verification_failed_both_calls_lenient"]]
    /\ pc' = [pc EXCEPT ![r] = "done"]
    /\ stage' = [stage EXCEPT ![r] = "none"]
    /\ UNCHANGED <<gvars, author, content, messageId, channel, path, result, hung, answer, outcome,
                   deleted>>
    /\ UNCHANGED <<recentMessages, strikes, mutedRole, muteTimers, muteApplied, quarRole,
                   quarantineMap, activeAtCreate>>
    /\ RecordEnd
    /\ UNCHANGED <<tvars, svars, trace, dvars>>

\* (mutant) the verified strike is stored under a fixed category
CreateStrikeAsSpam(r) ==
    /\ pc[r] = "createStrike"
    /\ strikes' = strikes \cup {StrikeRow(r, "FLAG_SPAM", "verified")}
    /\ activeAtCreate' = [activeAtCreate EXCEPT
                            ![r] = CountActiveStrikes(strikes', author[r])]
    /\ pc' = [pc EXCEPT ![r] = "countStrikes"]
    /\ UNCHANGED <<gvars, author, content, messageId, channel, path, result, stage, hung, answer,
                   verification, outcome,
                   deleted>>
    /\ UNCHANGED <<recentMessages, mutedRole, muteTimers, muteApplied, quarRole,
                   quarantineMap>>
    /\ RecordEnd
    /\ UNCHANGED <<tvars, svars, trace, dvars>>

\* lines 381-392: the verified strike is stored
CreateStrike(r) ==
    /\ pc[r] = "createStrike"
    /\ strikes' = strikes \cup {StrikeRow(r, result[r].category, "verified")}
    /\ activeAtCreate' = [activeAtCreate EXCEPT
                            ![r] = CountActiveStrikes(strikes', author[r])]
    /\ pc' = [pc EXCEPT ![r] = "countStrikes"]
    /\ UNCHANGED <<gvars, author, content, messageId, channel, path, result, stage, hung, answer,
                   verification, outcome,
                   deleted>>
    /\ UNCHANGED <<recentMessages, mutedRole, muteTimers, muteApplied, quarRole,
                   quarantineMap>>
    /\ RecordEnd
    /\ UNCHANGED <<tvars, svars, trace, dvars>>

\* lines 1596-1598: the flood detector fired: delete, timed mute
FloodPunish(r) ==
    /\ pc[r] = "floodPunish"
    /\ deleted' = [deleted EXCEPT ![r] = TRUE]
    /\ MuteMember(author[r], AUTO_MUTE_MINUTES)
    /\ muteApplied' = [muteApplied EXCEPT ![r] = "timed"]
    /\ pc' = [pc EXCEPT ![r] = "floodStrike"]
    /\ UNCHANGED <<gvars, author, content, messageId, channel, path, result, stage, hung, answer,
                   verification, outcome>>
    /\ UNCHANGED <<recentMessages, strikes, quarRole, quarantineMap, activeAtCreate>>
    /\ RecordEnd
    /\ UNCHANGED <<tvars, svars, trace, dvars>>

\* line 1603: the flood strike is stored without adjudication
FloodStrike(r) ==
    /\ pc[r] = "floodStrike"
    /\ strikes' = strikes \cup {StrikeRow(r, "FLAG_SPAM", "spam_detection")}
    /\ activeAtCreate' = [activeAtCreate EXCEPT
                            ![r] = CountActiveStrikes(strikes', author[r])]
    /\ pc' = [pc EXCEPT ![r] = "countStrikes"]
    /\ UNCHANGED <<gvars, author, content, messageId, channel, path, result, stage, hung, answer,
                   verification, outcome,
                   deleted>>
    /\ UNCHANGED <<recentMessages, mutedRole, muteTimers, muteApplied, quarRole,
                   quarantineMap>>
    /\ RecordEnd
    /\ UNCHANGED <<tvars, svars, trace, dvars>>

\* (mutant) a count that sees the earlier rows and the flow's own row only
CountStrikesOwn(r) ==
    /\ pc[r] = "countStrikes"
    /\ IF ReachedThreshold(CountActiveStrikes({s \in strikes : s.id <= 0 \/ s.id = r},
                                              author[r]))
         THEN /\ pc' = [pc EXCEPT ![r] = "permMute"]
              /\ UNCHANGED <<mutedRole, muteTimers, muteApplied>>
         ELSE /\ pc' = [pc EXCEPT ![r] = "done"]
              /\ IF path[r] # "flood" /\ result[r].category \in {"FLAG_HATE", "FLAG_NSFW"}
                   THEN /\ MuteMember(author[r], AUTO_MUTE_MINUTES * 3)
                        /\ muteApplied' = [muteApplied EXCEPT ![r] = "timed"]
                   ELSE UNCHANGED <<mutedRole, muteTimers, muteApplied>>
    /\ UNCHANGED <<gvars, author, content, messageId, channel, path, result, stage, hung, answer,
                   verification, outcome,
                   deleted>>
    /\ UNCHANGED <<recentMessages, strikes, quarRole, quarantineMap, activeAtCreate>>
    /\ RecordEnd
    /\ UNCHANGED <<tvars, svars, trace, dvars>>

\* lines 393-399 and 1604-1606: count the active strikes; below the threshold a
\* verified hate or NSFW strike draws a timed mute of three times AUTO_MUTE_MINUTES
CountStrikes(r) ==
    /\ pc[r] = "countStrikes"
    /\ IF ReachedThreshold(CountActiveStrikes(strikes, author[r]))
         THEN /\ pc' = [pc EXCEPT ![r] = "permMute"]
              /\ UNCHANGED <<mutedRole, muteTimers, muteApplied>>
         ELSE /\ pc' = [pc EXCEPT ![r] = "done"]
              /\ IF path[r] # "flood" /\ result[r].category \in {"FLAG_HATE", "FLAG_NSFW"}
                   THEN /\ MuteMember(author[r], AUTO_MUTE_MINUTES * 3)
                        /\ muteApplied' = [muteApplied EXCEPT ![r] = "timed"]
                   ELSE UNCHANGED <<mutedRole, muteTimers, muteApplied>>
    /\ UNCHANGED <<gvars, author, content, messageId, channel, path, result, stage, hung, answer,
                   verification, outcome,
                   deleted>>
    /\ UNCHANGED <<recentMessages, strikes, quarRole, quarantineMap, activeAtCreate>>
    /\ RecordEnd
    /\ UNCHANGED <<tvars, svars, trace, dvars>>

\* lines 625-638: muteMemberForever adds the Muted role unless it is held already
PermMute(r) ==
    /\ pc[r] = "permMute"
    /\ mutedRole' = mutedRole \cup {author[r]}
    /\ muteApplied' = [muteApplied EXCEPT ![r] = "forever"]
    /\ pc' = [pc EXCEPT ![r] = "done"]
    /\ UNCHANGED <<gvars, author, content, messageId, channel, path, result, stage, hung, answer,
                   verification, outcome,
                   deleted>>
    /\ UNCHANGED <<recentMessages, strikes, muteTimers, quarRole, quarantineMap,
                   activeAtCreate>>
    /\ RecordEnd
    /\ UNCHANGED <<tvars, svars, trace, dvars>>

\* line 375: decideAndApplyStrike is called for a message of member u with text
\* t that was labelled with category c
Adjudicate(r, U, T, C) ==
    /\ pc[r] = "idle"
    /\ IF r = 1 THEN TRUE ELSE pc[r - 1] # "idle"
    /\ \E u \in U, t \in T, c \in C :
         /\ author' = [author EXCEPT ![r] = u]
         /\ content' = [content EXCEPT ![r] = t]
         /\ messageId' = [messageId EXCEPT ![r] = r]
         /\ channel' = [channel EXCEPT ![r] = "general"]
         /\ result' = [result EXCEPT ![r] = Result(c)]
    /\ pc' = [pc EXCEPT ![r] = "decide"]
    /\ UNCHANGED <<gvars, path, stage, hung, answer, verification, outcome, deleted>>
    /\ UNCHANGED <<recentMessages, strikes, mutedRole, muteTimers, muteApplied, quarRole,
                   quarantineMap, activeAtCreate>>
    /\ RecordEnd
    /\ UNCHANGED <<tvars, svars, trace, dvars>>

----------------------------------------------------------------------------
(* Quarantine on join and the hourly sweep (lines 1175-1260)               *)

\* the sweeps of a behaviour
MaxSweeps == 2

\* the clock steps of a behaviour with sweeps, each of SweepStepSec
MaxSweepSteps == 6

SweepStepSec == 12 * 60 * 60

\* lines 582-588
isNewAccount(u) == now - accountCreatedAt[u] < ACCOUNT_AGE_LIMIT_DAYS * DaySec

\* lines 1243-1260, from the return of the greeting DM: the role and the
\* timestamp of an account under the age limit (role changes succeed)
guildMemberAdd(u) ==
    /\ u \notin members
    /\ members' = members \cup {u}
    /\ joinedAt' = [joinedAt EXCEPT ![u] = now]
    /\ IF isNewAccount(u)
         THEN /\ quarRole' = quarRole \cup {u}
              /\ quarantineMap' = [quarantineMap EXCEPT ![u] = now]
         ELSE UNCHANGED <<quarRole, quarantineMap>>
    /\ UNCHANGED <<accountCreatedAt, sweep, sweepLog, trace, dvars>>
    /\ UNCHANGED <<recentMessages, strikes, mutedRole, muteTimers, muteApplied,
                   activeAtCreate, endMuted>>
    /\ UNCHANGED <<gvars, rvars, tvars>>

\* the sweep after its loop over the members: the loop over the keys of the
\* map qm (line 1201), or the end of the sweep when there is none
SweepRecords(w, qm) ==
    LET keys == {u \in Users : qm[u] # -1} IN
    IF keys = {}
      THEN /\ sweep' = NoSweep
           /\ sweepLog' = Append(sweepLog, [at |-> w.startedAt, map |-> w.map])
      ELSE /\ sweep' = [w EXCEPT !.pc = "records", !.left = keys]
           /\ UNCHANGED sweepLog

\* line 1175: a sweep starts (at the start of the process, then every hour)
SweepStart ==
    LET w == [pc |-> "members", left |-> members, startedAt |-> now,
              map |-> quarantineMap]
    IN
    /\ sweep.pc = "idle"
    /\ Len(sweepLog) < MaxSweeps
    /\ IF members = {}
         THEN SweepRecords(w, quarantineMap)
         ELSE /\ sweep' = w
              /\ UNCHANGED sweepLog
    /\ UNCHANGED <<members, accountCreatedAt, joinedAt, trace, dvars>>
    /\ UNCHANGED <<gvars, rvars, mvars, tvars>>

\* lines 1180-1198: the sweep visits the member u
SweepMember(u) ==
    LET isQuarantine == u \in quarRole
        isNew        == isNewAccount(u)
        qr == IF isNew /\ ~isQuarantine THEN quarRole \cup {u}
              ELSE IF isQuarantine /\ ~isNew THEN quarRole \ {u}
              ELSE quarRole
        qm == IF isNew /\ ~isQuarantine THEN [quarantineMap EXCEPT ![u] = now]
              ELSE IF isQuarantine /\ ~isNew THEN [quarantineMap EXCEPT ![u] = -1]
              ELSE quarantineMap
        w  == [sweep EXCEPT !.left = @ \ {u}]
    IN
    /\ sweep.pc = "members"
    /\ u \in sweep.left
    /\ quarRole' = qr
    /\ quarantineMap' = qm
    /\ IF w.left = {}
         THEN SweepRecords(w, qm)
         ELSE /\ sweep' = w
              /\ UNCHANGED sweepLog
    /\ UNCHANGED <<members, accountCreatedAt, joinedAt, trace, dvars>>
    /\ UNCHANGED <<recentMessages, strikes, mutedRole, muteTimers, muteApplied,
                   activeAtCreate, endMuted>>
    /\ UNCHANGED <<gvars, rvars, tvars>>

\* lines 1201-1218 with the record of u expiring when expired(age) holds
SweepRecordWhen(u, expired(_)) ==
    LET ts == quarantineMap[u]
        w  == [sweep EXCEPT !.left = @ \ {u}]
    IN
    /\ sweep.pc = "records"
    /\ u \in sweep.left
    /\ IF ts # -1 /\ expired(now - ts)
         THEN /\ quarRole' = quarRole \ {u}
              /\ quarantineMap' = [quarantineMap EXCEPT ![u] = -1]
         ELSE UNCHANGED <<quarRole, quarantineMap>>
    /\ IF w.left = {}
         THEN /\ sweep' = NoSweep
              /\ sweepLog' = Append(sweepLog, [at |-> w.startedAt, map |-> w.map])
         ELSE /\ sweep' = w
              /\ UNCHANGED sweepLog
    /\ UNCHANGED <<members, accountCreatedAt, joinedAt, trace, dvars>>
    /\ UNCHANGED <<recentMessages, strikes, mutedRole, muteTimers, muteApplied,
                   activeAtCreate, endMuted>>
    /\ UNCHANGED <<gvars, rvars, tvars>>

\* the sweep with a record expiring only after more than 72 hours
SweepRecordLate(u) == SweepRecordWhen(u, LAMBDA age : age > Sec(SEVENTY_TWO_HOURS))

\* line 1207
Expired(age) == age >= Sec(SEVENTY_TWO_HOURS)

\* lines 1201-1218: the sweep visits the record of u
SweepRecord(u) == SweepRecordWhen(u, Expired)

\* SweepStepSec pass
HoursPass ==
    /\ now < StartSec + MaxSweepSteps * SweepStepSec
    /\ now' = now + SweepStepSec
    /\ UNCHANGED <<windowStart, callsThisWindow, activeCalls, pendingQueue,
                   messageCache, cfg>>
    /\ UNCHANGED <<rvars, mvars, tvars, svars, trace, dvars>>

\* the creation times of the accounts: a day, 29 days and 40 days before
\* the process starts
AccountBirths == {StartSec - n * DaySec : n \in {1, 29, 40}}

\* nobody has joined; no message is delivered
InitSweep ==
    /\ PipelineStart
    /\ openai = TRUE
    /\ MAX_OPENAI_PER_MIN = 600
    /\ CONCURRENCY = 3
    /\ quarRole = {}
    /\ quarantineMap = [u \in Users |-> -1]
    /\ TicketIdle
    /\ members = {}
    /\ accountCreatedAt \in [Users -> AccountBirths]
    /\ joinedAt = [u \in Users |-> -1]
    /\ sweep = NoSweep
    /\ sweepLog = <<>>
    /\ trace = <<>>
    /\ DmIdle

NextSweep ==
    \/ \E u \in Users : guildMemberAdd(u)
    \/ SweepStart
    \/ \E u \in Users : SweepMember(u)
    \/ \E u \in Users : SweepRecord(u)
    \/ HoursPass

SpecSweep == InitSweep /\ [][NextSweep]_vars

----------------------------------------------------------------------------
(* The strike table over the decay window (lines 670-695)                  *)

\* the rows added to the strike table
MaxNewRows == 2

\* the clock steps of a behaviour over the decay window, each of DecayStepSec
MaxDecaySteps == 2

DecayStepSec == 15 * DaySec

\* the call of fn with args returned val, having read saw
Called(fn, args, val, saw) ==
    [fn |-> fn, args |-> args, ret |-> val, at |-> now, saw |-> saw]

\* lines 670-682, called for the user u
createStrike(u) ==
    /\ Cardinality(strikes) < Cardinality(EarlierStrikes) + MaxNewRows
    /\ strikes' = strikes \cup {[id |-> 100 + Cardinality(strikes), userId |-> u,
                                  category |-> "FLAG_SPAM", reason |-> "call",
                                  messageId |-> 0, createdAt |-> now,
                                  pardoned |-> FALSE]}
    /\ UNCHANGED <<recentMessages, mutedRole, muteTimers, muteApplied, quarRole,
                   quarantineMap, activeAtCreate, endMuted>>
    /\ UNCHANGED <<gvars, rvars, tvars, svars, trace, dvars>>

\* the pardoned column of a row is set (by a moderator, outside the bot)
Pardon(st) ==
    /\ st \in strikes
    /\ ~st.pardoned
    /\ strikes' = (strikes \ {st}) \cup {[st EXCEPT !.pardoned = TRUE]}
    /\ UNCHANGED <<recentMessages, mutedRole, muteTimers, muteApplied, quarRole,
                   quarantineMap, activeAtCreate, endMuted>>
    /\ UNCHANGED <<gvars, rvars, tvars, svars, trace, dvars>>

\* lines 684-695, called for the user u
countActiveStrikes(u) ==
    /\ trace' = <<Called("countActiveStrikes", <<u>>, CountActiveStrikes(strikes, u),
                          strikes)>>
    /\ UNCHANGED <<gvars, rvars, mvars, tvars, svars, dvars>>

\* DecayStepSec pass
DaysPass ==
    /\ now < StartSec + MaxDecaySteps * DecayStepSec
    /\ now' = now + DecayStepSec
    /\ UNCHANGED <<windowStart, callsThisWindow, activeCalls, pendingQueue,
                   messageCache, cfg>>
    /\ UNCHANGED <<rvars, mvars, tvars, svars, trace, dvars>>

\* the table holds the earlier strikes; no message is delivered
InitDecay == PipelineIdle /\ TicketIdle

NextDecay ==
    \/ \E u \in Users : createStrike(u)
    \/ \E st \in strikes \ EarlierStrikes : Pardon(st)
    \/ \E u \in Users : countActiveStrikes(u)
    \/ DaysPass

SpecDecay == InitDecay /\ [][NextDecay]_vars

----------------------------------------------------------------------------
(* The cache over its time to live (lines 187-198)                         *)

\* the clock steps of a behaviour of the cache, each of CacheStepSec
MaxCacheSteps == 3

CacheStepSec == 5 * 60

\* the call e, after the call before it
LastTwo(e) == IF trace = <<>> THEN <<e>> ELSE <<trace[Len(trace)], e>>

\* lines 196-198, called with the text k and the result of category c
cacheSet(k, c) ==
    /\ messageCache' = CacheSet(G, k, Result(c)).cache
    /\ trace' = LastTwo(Called("cacheSet", <<k, Result(c)>>, NoEntry, messageCache[k]))
    /\ UNCHANGED <<now, windowStart, callsThisWindow, activeCalls, pendingQueue, cfg>>
    /\ UNCHANGED <<rvars, mvars, tvars, svars, dvars>>

\* lines 187-195, called with the text k
cacheGet(k) ==
    /\ messageCache' = CacheGetG(G, k).cache
    /\ trace' = LastTwo(Called("cacheGet", <<k>>, CacheGet(G, k), messageCache[k]))
    /\ UNCHANGED <<now, windowStart, callsThisWindow, activeCalls, pendingQueue, cfg>>
    /\ UNCHANGED <<rvars, mvars, tvars, svars, dvars>>

\* CacheStepSec pass
MinutesPass ==
    /\ now < StartSec + MaxCacheSteps * CacheStepSec
    /\ now' = now + CacheStepSec
    /\ UNCHANGED <<windowStart, callsThisWindow, activeCalls, pendingQueue,
                   messageCache, cfg>>
    /\ UNCHANGED <<rvars, mvars, tvars, svars, trace, dvars>>

\* the cache is empty; no message is delivered
InitCache == PipelineIdle /\ TicketIdle

NextCache ==
    \/ \E k \in {"picks", "hello"}, c \in {"OK", "FLAG_BET", "FLAG_HATE"} : cacheSet(k, c)
    \/ \E k \in {"picks", "hello"} : cacheGet(k)
    \/ MinutesPass

SpecCache == InitCache /\ [][NextCache]_vars

----------------------------------------------------------------------------
(* shouldCheckByPolicy over composed texts (lines 425-452)                 *)

\* the pieces a text is composed of, at most
MaxPieces == 2

\* seventeen letters t: with "bet" a text of 20 characters
ManyT == [i \in 1..17 |-> "t"]

PolicyPieces ==
    {<<"b", "e", "t">>, <<"B", "E", "T">>, <<"a", "l", "r", "i", "g", "h", "t", " ">>,
     <<" ">>, <<"!">>, <<".">>, <<"t">>, ManyT, <<"o", "k">>,
     <<"p", "a", "r", "l", "a", "y">>, <<"p", "o", "r", "n">>, <<"\n">>}

\* the texts of at most n pieces
RECURSIVE Composed(_)
Composed(n) ==
    IF n = 0 THEN {<<>>}
    ELSE LET shorter == Composed(n - 1) IN
         shorter \cup {a \o piece : a \in shorter, piece \in PolicyPieces}

\* lines 425-452, called once with the text and the outcome of the sampling
\* draw
shouldCheckByPolicy(text, sampled) ==
    /\ trace = <<>>
    /\ trace' = <<Called("shouldCheckByPolicy", <<text, sampled>>,
                          PolicyRules(PolicyFacts(text), sampled), PolicyFacts(text))>>
    /\ UNCHANGED <<gvars, rvars, mvars, tvars, svars, dvars>>

\* no message is delivered
InitPolicy == PipelineIdle /\ TicketIdle

NextPolicy == \E text \in Composed(MaxPieces), sampled \in BOOLEAN :
                 shouldCheckByPolicy(text, sampled)

SpecPolicy == InitPolicy /\ [][NextPolicy]_vars

\* the clock advances
Tick ==
    /\ now < StartSec + MaxTicks * Sec(TickMs)
    /\ now' = now + Sec(TickMs)
    /\ UNCHANGED <<windowStart, callsThisWindow, activeCalls, pendingQueue,
                   messageCache, cfg>>
    /\ UNCHANGED <<rvars, mvars, tvars, svars, trace, dvars>>

\* classification of the messages of the members U with the texts T, the
\* classifier answering from A
ClassifySteps(S, U, T, A) ==
    \/ \E r \in S : Receive(r, U, T)
    \/ \E r \in S : Screen(r)
    \/ \E r \in S : Budget(r)
    \/ \E r \in S : Direct(r)
    \/ \E r \in S : Enqueue(r)
    \/ \E r \in S : CallReturn(r, A)
    \/ \E r \in S : Enforce(r)

\* the budgets of a window that Spec starts with
Budgets == {2, 5}

\* the client may be configured or not; u2 may be in quarantine since the start
Init ==
    /\ PipelineStart
    /\ openai \in BOOLEAN
    /\ MAX_OPENAI_PER_MIN \in Budgets
    /\ CONCURRENCY = 1
    /\ quarRole \in {{}, {"u2"}}
    /\ quarantineMap = [u \in Users |-> IF u \in quarRole THEN StartSec ELSE -1]
    /\ TicketIdle
    /\ SweepIdle
    /\ trace = <<>>
    /\ DmIdle

Next ==
    \/ ClassifySteps(Runs, Users, Texts, ClassifierAnswers)
    \/ \E r \in Runs : Quarantine(r)
    \/ \E r \in Runs : Decide(r)
    \/ \E r \in Runs : VerifyReturn(r, VerifyAnswers)
    \/ \E r \in Runs : CreateStrike(r)
    \/ \E r \in Runs : CountStrikes(r)
    \/ \E r \in Runs : PermMute(r)
    \/ \E r \in Runs : ChatFail(r)
    \/ \E r \in Runs : CallFail(r)
    \/ \E r \in Runs : VerifyFail(r)
    \/ \E r \in Runs : Hang(r)

Spec == Init /\ [][Next]_vars

\* the client is configured with a budget of n calls and one call slot; nobody
\* is in quarantine
InitPlain(n) ==
    /\ PipelineStart
    /\ openai = TRUE
    /\ MAX_OPENAI_PER_MIN = n
    /\ CONCURRENCY = 1
    /\ quarRole = {}
    /\ quarantineMap = [u \in Users |-> -1]
    /\ TicketIdle
    /\ SweepIdle
    /\ trace = <<>>
    /\ DmIdle

\* a window's budget that lets two requests be sent and adjudicated
HangBudget == 6

\* requests of which one may hang
NextHang ==
    \/ ClassifySteps(1..MaxGatewayRuns, Users, {"picks", "hello"}, {"ok", "flag_bet"})
    \/ \E r \in 1..MaxGatewayRuns : Decide(r)
    \/ \E r \in 1..MaxGatewayRuns : VerifyReturn(r, {"unclear"})
    \/ \E r \in 1..MaxGatewayRuns : Hang(r)

\* The event loop runs a callback that is ready, and an external call that is
\* not one that hangs is answered: some step is taken as long as one is possible.
FairSpecHang ==
    /\ InitPlain(HangBudget)
    /\ [][NextHang]_vars
    /\ WF_vars(NextHang)

\* N + 1 classification requests in one window of budget N: messages with
\* different texts, all answered OK by the classifier
NextBudget == ClassifySteps(1..MaxBudgetRuns, Users, Texts, {"ok"})

SpecBudget == InitPlain(MaxBudgetRuns - 1) /\ [][NextBudget]_vars

\* line 1419: the event of the message of an earlier run m is delivered again
Redeliver(r) ==
    /\ pc[r] = "idle"
    /\ IF r = 1 THEN TRUE ELSE pc[r - 1] # "idle"
    /\ \E m \in 1..(r - 1) :
         LET u == author[m] IN
         /\ author' = [author EXCEPT ![r] = u]
         /\ content' = [content EXCEPT ![r] = content[m]]
         /\ messageId' = [messageId EXCEPT ![r] = messageId[m]]
         /\ channel' = [channel EXCEPT ![r] = channel[m]]
         /\ pc' = [pc EXCEPT ![r] = IF u \in quarRole THEN "quarantine" ELSE "screen"]
         /\ path' = [path EXCEPT ![r] = IF u \in quarRole THEN "quar" ELSE "none"]
    /\ UNCHANGED <<gvars, result, stage, hung, answer, verification, outcome, deleted>>
    /\ UNCHANGED <<recentMessages, strikes, mutedRole, muteTimers, muteApplied, quarRole,
                   quarantineMap, activeAtCreate>>
    /\ RecordEnd
    /\ UNCHANGED <<tvars, svars, trace, dvars>>

\* a window's budget that lets a message and its second delivery be handled
RedeliverBudget == 6

\* messages whose events may be delivered twice
NextRedeliver ==
    \/ ClassifySteps(Runs, Users, {"picks", "hello"}, {"ok", "flag_bet"})
    \/ \E r \in Runs : Redeliver(r)
    \/ \E r \in Runs : Decide(r)
    \/ \E r \in Runs : VerifyReturn(r, {"strike", "unclear"})
    \/ \E r \in Runs : CreateStrike(r)
    \/ \E r \in Runs : CountStrikes(r)
    \/ \E r \in Runs : PermMute(r)

SpecRedeliver == InitPlain(RedeliverBudget) /\ [][NextRedeliver]_vars

\* strike flows of the member who is one strike short of the threshold
NextEscalate ==
    \/ ClassifySteps(1..MaxFloodRuns, {"u1"}, {"picks"}, {"flag_bet", "flag_hate"})
    \/ \E r \in 1..MaxFloodRuns : Decide(r)
    \/ \E r \in 1..MaxFloodRuns : VerifyReturn(r, {"strike", "unclear"})
    \/ \E r \in 1..MaxFloodRuns : CreateStrike(r)
    \/ \E r \in 1..MaxFloodRuns : FloodPunish(r)
    \/ \E r \in 1..MaxFloodRuns : FloodStrike(r)
    \/ \E r \in 1..MaxFloodRuns : CountStrikes(r)
    \/ \E r \in 1..MaxFloodRuns : PermMute(r)

\* one classification and its adjudication fit in a window
EscalateBudget == 3

SpecEscalate == InitPlain(EscalateBudget) /\ [][NextEscalate]_vars

\* classification requests, direct and queued, with a service that may fail
NextGateway ==
    \/ ClassifySteps(1..MaxGatewayRuns, Users, {"picks", "hello"},
                     {"ok", "flag_bet", "empty"})
    \/ \E r \in 1..MaxGatewayRuns : Decide(r)
    \/ \E r \in 1..MaxGatewayRuns : VerifyReturn(r, {"unclear"})
    \/ \E r \in 1..MaxGatewayRuns : ChatFail(r)
    \/ \E r \in 1..MaxGatewayRuns : CallFail(r)
    \/ \E r \in 1..MaxGatewayRuns : VerifyFail(r)

\* two classifications fit in a window
GatewayBudget == 4

SpecGateway == InitPlain(GatewayBudget) /\ [][NextGateway]_vars

\* a window's budget that lets all adjudications but one be asked
AdjudicateBudget == 2

\* with or without a client
InitAdjudicate ==
    /\ PipelineStart
    /\ openai \in BOOLEAN
    /\ MAX_OPENAI_PER_MIN = AdjudicateBudget
    /\ CONCURRENCY = 1
    /\ quarRole = {}
    /\ quarantineMap = [u \in Users |-> -1]
    /\ TicketIdle
    /\ SweepIdle
    /\ trace = <<>>
    /\ DmIdle

\* decideAndApplyStrike on flagged messages, with a service that may fail
NextAdjudicate ==
    \/ \E r \in 1..MaxAdjudications :
         Adjudicate(r, Users, {"picks"}, {"FLAG_HATE"})
    \/ \E r \in 1..MaxAdjudications : Decide(r)
    \/ \E r \in 1..MaxAdjudications : VerifyReturn(r, {"strike", "unclear"})
    \/ \E r \in 1..MaxAdjudications : ChatFail(r)
    \/ \E r \in 1..MaxAdjudications : VerifyFail(r)
    \/ \E r \in 1..MaxAdjudications : CreateStrike(r)
    \/ \E r \in 1..MaxAdjudications : CountStrikes(r)
    \/ \E r \in 1..MaxAdjudications : PermMute(r)

SpecAdjudicate == InitAdjudicate /\ [][NextAdjudicate]_vars

\* the client is configured with a budget of n calls and one call slot; u2 is
\* in quarantine since the start
InitQuarantined(n) ==
    /\ PipelineStart
    /\ openai = TRUE
    /\ MAX_OPENAI_PER_MIN = n
    /\ CONCURRENCY = 1
    /\ quarRole = {"u2"}
    /\ quarantineMap = [u \in Users |-> IF u = "u2" THEN StartSec ELSE -1]
    /\ TicketIdle
    /\ SweepIdle
    /\ trace = <<>>
    /\ DmIdle

\* a window's budget for two classifications with their adjudications
SkipBudget == 6

\* messages "alright bet" and "hello there" of a quarantined and of another member
NextSkip ==
    \/ ClassifySteps(Runs, Users, {"bet", "hello"}, {"ok", "flag_bet"})
    \/ \E r \in Runs : Quarantine(r)
    \/ \E r \in Runs : Decide(r)
    \/ \E r \in Runs : VerifyReturn(r, {"strike", "unclear"})
    \/ \E r \in Runs : CreateStrike(r)
    \/ \E r \in Runs : CountStrikes(r)
    \/ \E r \in Runs : PermMute(r)

SpecSkip == InitQuarantined(SkipBudget) /\ [][NextSkip]_vars

\* no client is configured; u2 is in quarantine since the start
InitUnconfigured ==
    /\ PipelineStart
    /\ openai = FALSE
    /\ MAX_OPENAI_PER_MIN \in Budgets
    /\ CONCURRENCY = 1
    /\ quarRole = {"u2"}
    /\ quarantineMap = [u \in Users |-> IF u = "u2" THEN StartSec ELSE -1]
    /\ TicketIdle
    /\ SweepIdle
    /\ trace = <<>>
    /\ DmIdle

\* messages handled without a client: no request reaches the slot or the queue
NextUnconfigured ==
    \/ \E r \in 1..MaxFloodRuns : Receive(r, Users, {"slur", "hello"})
    \/ \E r \in 1..MaxFloodRuns : Quarantine(r)
    \/ \E r \in 1..MaxFloodRuns : Screen(r)
    \/ \E r \in 1..MaxFloodRuns : Budget(r)
    \/ \E r \in 1..MaxFloodRuns : Enforce(r)
    \/ \E r \in 1..MaxFloodRuns : FloodPunish(r)
    \/ \E r \in 1..MaxFloodRuns : FloodStrike(r)
    \/ \E r \in 1..MaxFloodRuns : CountStrikes(r)
    \/ \E r \in 1..MaxFloodRuns : PermMute(r)

SpecUnconfigured == InitUnconfigured /\ [][NextUnconfigured]_vars

----------------------------------------------------------------------------
(* The earlier variant of the handler, src/unnamed/part_000 lines 887-1003. *)
(* Its rate window, cache, queue, flood window and strike functions are the *)
(* same code (lines 126-218, 355-444, 864-886).                            *)

\* part_000 lines 81-93: "picks" is one of BETTING_KEYWORDS
LegacyKeyword(t) == t = "picks"

\* part_000 lines 199-208
LegacyMapCategory(raw) ==
    LET out == ToUpperCase(raw) IN
    IF Includes(out, S_FLAG_HATE) THEN "FLAG_HATE"
    ELSE IF Includes(out, S_FLAG_NSFW) THEN "FLAG_NSFW"
    ELSE IF Includes(out, S_FLAG_BET) THEN "FLAG_BET"
    ELSE IF Includes(out, S_FLAG_SPAM) THEN "FLAG_SPAM"
    ELSE "OK"

\* part_000 lines 888-910
LegacyReceive(r, U, T) ==
    /\ pc[r] = "idle"
    /\ IF r = 1 THEN TRUE ELSE pc[r - 1] # "idle"
    /\ \E u \in U, t \in T :
         /\ author' = [author EXCEPT ![r] = u]
         /\ content' = [content EXCEPT ![r] = t]
         /\ messageId' = [messageId EXCEPT ![r] = r]
         /\ channel' = [channel EXCEPT ![r] = "general"]
         /\ pc' = [pc EXCEPT ![r] = IF u \in quarRole THEN "legacyQuarantine"
                                                      ELSE "legacyScreen"]
    /\ UNCHANGED <<gvars, path, result, stage, hung, answer, verification, outcome,
                   deleted>>
    /\ UNCHANGED <<recentMessages, strikes, mutedRole, muteTimers, muteApplied, quarRole,
                   quarantineMap, activeAtCreate>>
    /\ RecordEnd
    /\ UNCHANGED <<tvars, svars, trace, dvars>>

\* part_000 lines 912-919: the message of a quarantined member is deleted; the
\* role is taken back once the account is old enough
LegacyQuarantine(r) ==
    /\ pc[r] = "legacyQuarantine"
    /\ deleted' = [deleted EXCEPT ![r] = TRUE]
    /\ \E aged \in BOOLEAN :
         quarRole' = IF aged THEN quarRole \ {author[r]} ELSE quarRole
    /\ pc' = [pc EXCEPT ![r] = "done"]
    /\ UNCHANGED <<gvars, author, content, messageId, channel, path, result, stage, hung, answer,
                   verification, outcome>>
    /\ UNCHANGED <<recentMessages, strikes, mutedRole, muteTimers, muteApplied,
                   quarantineMap,
                   activeAtCreate>>
    /\ RecordEnd
    /\ UNCHANGED <<tvars, svars, trace, dvars>>

\* part_000 lines 921-961: flood tracking, cache lookup (a flagged hit is
\* deleted, nothing more), keyword or sampling
LegacyScreen(r) ==
    LET u   == author[r]
        t   == content[r]
        arr == AddRecentMessage(recentMessages[u], t)
        e   == CacheGet(G, t)
        g1  == CacheGetG(G, t)
    IN
    /\ pc[r] = "legacyScreen"
    /\ recentMessages' = [recentMessages EXCEPT ![u] = arr]
    /\ IF CheckSpam(arr)
         THEN /\ SetG([G EXCEPT !.pc[r] = "floodPunish"])
              /\ path' = [path EXCEPT ![r] = "flood"]
              /\ UNCHANGED deleted
         ELSE IF e # NoEntry
           THEN /\ SetG([g1 EXCEPT !.pc[r] = "done", !.outcome[r] = "cacheHit"])
                /\ deleted' = [deleted EXCEPT ![r] = e.flagged]
                /\ path' = [path EXCEPT ![r] = "cache"]
           ELSE /\ \E sampled \in BOOLEAN :
                     IF LegacyKeyword(t) \/ sampled
                       THEN SetG([g1 EXCEPT !.pc[r] = "budget"])
                       ELSE SetG([g1 EXCEPT !.pc[r] = "done", !.outcome[r] = "skip"])
                /\ UNCHANGED <<path, deleted>>
    /\ UNCHANGED <<now, cfg, author, content, messageId, channel, hung, answer, verification>>
    /\ UNCHANGED <<strikes, mutedRole, muteTimers, muteApplied, quarRole, quarantineMap,
                   activeAtCreate>>
    /\ RecordEnd
    /\ UNCHANGED <<tvars, svars, trace, dvars>>

\* part_000 lines 196-212: the classifier answered
LegacyCallReturn(r, A) ==
    /\ pc[r] = "call"
    /\ \E a \in A :
         SetG(Resolved(CacheSet(G, content[r], Result(LegacyMapCategory(RawText(a)))),
                       r, Result(LegacyMapCategory(RawText(a))), "answered"))
    /\ GatewayFrame

\* part_000 lines 213-217: the call failed
LegacyCallFail(r) ==
    /\ pc[r] = "call"
    /\ SetG(BothFailed(G, r))
    /\ GatewayFrame

\* part_000 lines 970-975 and 993-994: a flagged message is deleted
LegacyEnforce(r) ==
    /\ pc[r] = "enforce"
    /\ deleted' = [deleted EXCEPT ![r] = result[r].flagged]
    /\ pc' = [pc EXCEPT ![r] = IF result[r].flagged THEN "legacyStrike" ELSE "done"]
    /\ UNCHANGED <<gvars, author, content, messageId, channel, path, result, stage, hung, answer,
                   verification, outcome>>
    /\ UNCHANGED <<recentMessages, strikes, mutedRole, muteTimers, muteApplied, quarRole,
                   quarantineMap, activeAtCreate>>
    /\ RecordEnd
    /\ UNCHANGED <<tvars, svars, trace, dvars>>

\* part_000 lines 977-979: the strike is stored for the flagged message
LegacyStrike(r) ==
    /\ pc[r] = "legacyStrike"
    /\ strikes' = strikes \cup {StrikeRow(r, result[r].category, "flagged")}
    /\ activeAtCreate' = [activeAtCreate EXCEPT
                            ![r] = CountActiveStrikes(strikes', author[r])]
    /\ pc' = [pc EXCEPT ![r] = "countStrikes"]
    /\ UNCHANGED <<gvars, author, content, messageId, channel, path, result, stage, hung, answer,
                   verification, outcome,
                   deleted>>
    /\ UNCHANGED <<recentMessages, mutedRole, muteTimers, muteApplied, quarRole,
                   quarantineMap>>
    /\ RecordEnd
    /\ UNCHANGED <<tvars, svars, trace, dvars>>

NextLegacy ==
    \/ \E r \in Runs : LegacyReceive(r, Users, Texts)
    \/ \E r \in Runs : LegacyQuarantine(r)
    \/ \E r \in Runs : LegacyScreen(r)
    \/ \E r \in Runs : Budget(r)
    \/ \E r \in Runs : Direct(r)
    \/ \E r \in Runs : Enqueue(r)
    \/ \E r \in Runs : LegacyCallReturn(r, ClassifierAnswers)
    \/ \E r \in Runs : LegacyCallFail(r)
    \/ \E r \in Runs : LegacyEnforce(r)
    \/ \E r \in Runs : LegacyStrike(r)
    \/ \E r \in Runs : CountStrikes(r)
    \/ \E r \in Runs : PermMute(r)

SpecLegacy == Init /\ [][NextLegacy]_vars

----------------------------------------------------------------------------
(* Claims about createTicketChannel *)

Started == {c \in TCalls : tpc[c] # "idle"}

\* between installing its lock and its finally block
InSection(c) ==
    tpc[c] \in {"precheck", "createChannel", "insert", "uniq", "insert2", "announce"}

\* in the section with a lock of its own that neither expired nor was resolved
LiveHolder(c) == InSection(c) /\ lockTimer[c] = "armed" /\ ~lockResolved[c]

AllReturned == \A c \in Started : tpc[c] = "done"

C3_AtMostOneLiveHolder == Cardinality({c \in TCalls : LiveHolder(c)}) <= 1

\* C4: every installed lock is eventually resolved and no longer stored under
\* the key, and every call waiting on a lock eventually stops waiting, even when
\* the creation that holds the lock never returns.
C4_LockEventuallyReleased ==
    /\ \A l \in PairCalls :
         (lockTimer[l] = "armed") ~> (lockResolved[l] /\ lockInMap # l)
    /\ \A c \in PairCalls :
         (tpc[c] = "waiting") ~> (tpc[c] # "waiting")

\* C4 witness: a lock released by its TTL timer while the creation that
\* installed it has not returned, and the call that waited on it woken.
C4_Witness ==
    \E l \in PairCalls, c \in PairCalls :
        /\ lockTimer[l] = "fired" /\ lockResolved[l] /\ lockInMap # l
        /\ InSection(l)
        /\ waitOn[c] = l /\ tpc[c] = "recheck"

----------------------------------------------------------------------------
(* Claims about adjudication and strikes *)

\* the strike rows stored for the message of run r
StrikesOf(r) == {s \in strikes : s.id = r}

\* C1: a flagged message whose adjudication answer has NO_STRIKE as its first
\* line gets the verdict "no strike" (the flow does not go on to createStrike)
\* and no strike row is stored for it.
C1_NoStrikeAnswerStoresNoStrike ==
    \A r \in Runs :
        (answer[r] # "none" /\ FirstLine(VerifyText(answer[r])) = S_NO_STRIKE) =>
            /\ pc[r] \notin {"createStrike", "countStrikes", "permMute"}
            /\ StrikesOf(r) = {}

C6_StrikeOnlyFloodOrAdjudicated ==
    \A s \in strikes :
        s.id > 0 =>
            \/ s.reason = "spam_detection"
            \/ /\ answer[s.id] # "none"
               /\ ParseVerdict(VerifyText(answer[s.id]))

\* the adjudicator's answer to run r has neither verdict token in its first line
NeitherToken(r) ==
    /\ answer[r] # "none"
    /\ ~Includes(FirstLine(VerifyText(answer[r])), S_STRIKE)
    /\ ~Includes(FirstLine(VerifyText(answer[r])), S_NO_STRIKE)

\* verifyStrikeDecision returned to run r without a usable adjudication
NoAdjudication(r) ==
    \/ ~openai /\ verification[r] # NoVerification
    \/ verification[r].reason = "verification_unavailable_rate_limited_lenient"
    \/ verification[r].reason = "verification_failed_both_calls_lenient"
    \/ NeitherToken(r)

\* C11: when the client is missing, the budget is used up, both call strategies
\* fail or the answer's first line has neither verdict token, verifyStrikeDecision
\* returns strike = false, and decideAndApplyStrike ends without storing a strike
\* and without muting.
C11_NoAdjudicationNoPunishment ==
    \A r \in RunIds :
        NoAdjudication(r) =>
            /\ ~verification[r].strike
            /\ pc[r] = "done"
            /\ StrikesOf(r) = {}
            /\ muteApplied[r] = "none"

\* C11 witness: three adjudications in one window: an answer without a verdict
\* token, a call that failed on both strategies, and one refused for lack of
\* budget; none stored a strike.
C11_Witness ==
    \E r1, r2, r3 \in RunIds :
        /\ NeitherToken(r1)
        /\ verification[r2].reason = "verification_failed_both_calls_lenient"
        /\ verification[r3].reason = "verification_unavailable_rate_limited_lenient"
        /\ \A r \in {r1, r2, r3} : pc[r] = "done" /\ StrikesOf(r) = {}

----------------------------------------------------------------------------
(* Claims about the prefilter and the scenarios *)

\* the prefilter's decision for the message of run r is skip, whatever the sample
PrefilterSkips(r) == ~ShouldCheckByPolicy(content[r], TRUE)

\* C12: a message of a member who is not in quarantine, for which the prefilter
\* decides skip, is never sent to the classifier or the adjudicator, is not
\* deleted on a classification result and gets no strike on one.
C12_SkippedMessageUntouched ==
    \A r \in RunIds :
        (pc[r] # "idle" /\ path[r] # "quar" /\ PrefilterSkips(r)) =>
            /\ pc[r] \notin {"call", "verifyCall"}
            /\ outcome[r] \notin {"sent", "answered", "failed"}
            /\ path[r] # "flood" => ~deleted[r]
            /\ \A st \in StrikesOf(r) : st.reason = "spam_detection"

\* the prefilter's decision for the message of run r is check, whatever the sample
PrefilterForces(r) == ShouldCheckByPolicy(content[r], FALSE)

\* C13: without a client, a message that the prefilter force-checks is not
\* deleted on a classification result and gets no strike on one, whether its
\* author is in quarantine or not.
C13_UnconfiguredLeavesMessage ==
    \A r \in RunIds :
        (~openai /\ pc[r] # "idle" /\ PrefilterForces(r)) =>
            /\ pc[r] \notin {"call", "decide", "verifyCall", "createStrike"}
            /\ result[r] \in {NoResult, ResultOK}
            /\ path[r] # "flood" => ~deleted[r]
            /\ \A st \in StrikesOf(r) : st.reason = "spam_detection"

\* C13 witness: without a client, a message with a severe slur of a member in
\* quarantine and one of another member were handled to the end and are not deleted.
C13_Witness ==
    \E r1, r2 \in RunIds :
        /\ ~openai
        /\ content[r1] = "slur" /\ content[r2] = "slur"
        /\ PrefilterForces(r1) /\ TextFacts["slur"].hate
        /\ path[r1] = "quar" /\ outcome[r1] \in {"unconfigured", "capped"}
        /\ path[r2] = "none" /\ outcome[r2] = "missing"
        /\ pc[r1] = "done" /\ pc[r2] = "done"
        /\ ~deleted[r1] /\ ~deleted[r2]
        /\ strikes = EarlierStrikes

\* the classifier was asked about the message of run r and labelled it FLAG_BET,
\* and the adjudicator's answer has STRIKE as its first line
BetEscalated(r) ==
    /\ path[r] \in {"direct", "queue"}
    /\ PrefilterForces(r)
    /\ outcome[r] = "answered" /\ result[r] = Result("FLAG_BET")
    /\ answer[r] # "none" /\ FirstLine(VerifyText(answer[r])) = S_STRIKE

----------------------------------------------------------------------------
(* Claims about quarantine, decay, tickets and the cache *)

\* the account of u was under the age limit when u joined
NewAtJoin(u) ==
    /\ joinedAt[u] >= 0
    /\ joinedAt[u] - accountCreatedAt[u] < ACCOUNT_AGE_LIMIT_DAYS * DaySec

\* the last sweep has ended, and when it started the record of u was at least
\* 72 hours old
SweptAfterExpiry(u) ==
    /\ sweep.pc = "idle"
    /\ sweepLog # <<>>
    /\ LET e == sweepLog[Len(sweepLog)] IN
         /\ e.map[u] # -1
         /\ e.at - e.map[u] >= Sec(SEVENTY_TWO_HOURS)

OtherOpen(c) == OpenTickets \ {c}

\* C17: a call whose insert reported a uniqueness violation never ends with
\* an error; and when such a call finds another open ticket of the owner, its
\* own channel is deleted and it returns the channel of that ticket.
C17_UniqueViolationRecovered ==
    /\ [](\A c \in TCalls : uniqueSeen[c] /\ tpc[c] = "done" => ret[c] # -1)
    /\ [][\A c \in TCalls :
            tpc[c] = "uniq" /\ tpc'[c] # "uniq" /\ OtherOpen(c) # {}
               => /\ ~chanExists'[c]
                  /\ tpc'[c] = "done"
                  /\ ret'[c] \in OtherOpen(c)]_vars

\* C18: the strike table never holds more than one row for a message, also
\* when the event of the message is delivered twice.
C18_OneStrikePerMessage ==
    \A m \in RunIds : Cardinality({st \in strikes : st.messageId = m}) <= 1

\* the last two calls were cacheSet and then cacheGet of the same text
SetThenGet ==
    /\ Len(trace) = 2
    /\ trace[1].fn = "cacheSet"
    /\ trace[2].fn = "cacheGet"
    /\ trace[1].args[1] = trace[2].args[1]

\* C19: a cacheGet that follows the cacheSet of a text by less than
\* CACHE_TTL_MS returns the flagged and the category that were set, for an OK
\* result as for a flagged one; a cacheGet that follows it by more than
\* CACHE_TTL_MS returns absent and leaves no entry for the text.
C19_CacheRoundTrip ==
    SetThenGet =>
        LET set == trace[1]
            get == trace[2]
        IN
        /\ get.at - set.at < Sec(CACHE_TTL_MS)
              => /\ get.ret.flagged = set.args[2].flagged
                 /\ get.ret.category = set.args[2].category
        /\ get.at - set.at > Sec(CACHE_TTL_MS)
              => /\ get.ret = NoEntry
                 /\ messageCache[get.args[1]] = NoEntry

\* an OK result was read back five minutes after it was set
C19_Witness ==
    /\ SetThenGet
    /\ trace[1].args[2] = ResultOK
    /\ trace[2].at - trace[1].at = CacheStepSec
    /\ trace[2].ret.category = "OK"
    /\ ~trace[2].ret.flagged

PolicyCalls == {i \in DOMAIN trace : trace[i].fn = "shouldCheckByPolicy"}

\* the text matches the affirmation guard of line 430
AffirmationGuard(text) ==
    LET c == Trim(text) IN Len(c) <= 20 /\ AFFIRMATION_REGEX(c)

\* the text matches a rule that forces a check (lines 433-439)
ForcingRule(text) ==
    LET c == Trim(text) IN
    BETTING_SIGNAL_REGEX(c) \/ BETTING_LIKELY_REGEX(c) \/ NSFW_REGEX(c) \/ HATE_REGEX(c)

\* C20: shouldCheckByPolicy returns skip for every text that matches the
\* affirmation guard, whatever the later rules and the sampling say; and a
\* text outside the guard that matches a betting, NSFW or hate rule is
\* checked whatever the sampling says.
C20_AffirmationGuardWins ==
    \A i \in PolicyCalls :
        LET text == trace[i].args[1] IN
        /\ AffirmationGuard(text) => trace[i].ret = FALSE
        /\ ~AffirmationGuard(text) /\ ForcingRule(text) => trace[i].ret = TRUE

\* "BET" before a line break was skipped although the sampling had drawn a
\* check
C20_Witness ==
    \E i \in PolicyCalls :
        /\ trace[i].args[1] = <<"B", "E", "T", "\n">>
        /\ AffirmationGuard(trace[i].args[1])
        /\ trace[i].args[2] = TRUE
        /\ trace[i].ret = FALSE

\* the rows of the table rows that a count for u at the time at is to cover
ActiveRows(rows, u, at) ==
    {st \in rows : /\ st.userId = u
                   /\ st.pardoned = FALSE
                   /\ at - st.createdAt < STRIKE_DECAY_DAYS * DaySec}

CountCalls == {i \in DOMAIN trace : trace[i].fn = "countActiveStrikes"}

\* C16: countActiveStrikes returns the number of the user's rows that are not
\* pardoned and were created strictly later than the time of the call less
\* STRIKE_DECAY_DAYS; a row that is older than that is not counted and is
\* still in the table afterwards.
C16_CountsUnpardonedInWindow ==
    \A i \in CountCalls :
        /\ trace[i].ret = Cardinality(ActiveRows(trace[i].saw, trace[i].args[1], trace[i].at))
        /\ \A st \in trace[i].saw : \E kept \in strikes : kept.id = st.id

\* a count that left out a row created exactly STRIKE_DECAY_DAYS before, and
\* a pardoned row, and counted a newer one
C16_Witness ==
    \E i \in CountCalls :
        LET u == trace[i].args[1] IN
        /\ trace[i].ret >= 1
        /\ \E st \in trace[i].saw :
              /\ st.userId = u /\ ~st.pardoned
              /\ trace[i].at - st.createdAt = STRIKE_DECAY_DAYS * DaySec
              /\ st \in strikes
        /\ \E st \in trace[i].saw :
              /\ st.userId = u /\ st.pardoned
              /\ trace[i].at - st.createdAt < STRIKE_DECAY_DAYS * DaySec

----------------------------------------------------------------------------
(* Claims about posts in quarantine, the queue, the allowlist and failures *)

\* a member in quarantine whose account is a day old, with the record of the
\* quarantine's start, and a configured client
InitYoung ==
    /\ PipelineStart
    /\ openai = TRUE
    /\ MAX_OPENAI_PER_MIN = SkipBudget
    /\ CONCURRENCY = 1
    /\ quarRole = {"u2"}
    /\ quarantineMap = [u \in Users |-> IF u = "u2" THEN StartSec ELSE -1]
    /\ TicketIdle
    /\ members = Users
    /\ accountCreatedAt = [u \in Users |->
           IF u = "u2" THEN StartSec - DaySec
                       ELSE StartSec - (ACCOUNT_AGE_LIMIT_DAYS + 10) * DaySec]
    /\ joinedAt = [u \in Users |-> -1]
    /\ sweep = NoSweep
    /\ sweepLog = <<>>
    /\ trace = <<>>
    /\ DmIdle

\* messages "alright bet" and "hello there" of the new member and of another one
SpecYoung == InitYoung /\ [][NextSkip]_vars

\* C21: every message that a member whose account is younger than the
\* account-age limit sends while in quarantine is removed: no run of the handler
\* for such a message ends with the message still in the channel
C21_QuarantinedMessageRemoved ==
    \A r \in Runs :
        /\ pc[r] = "done"
        /\ path[r] = "quar"
        /\ isNewAccount(author[r])
        => deleted[r]

\* messages handled at the same time while a request waits
MaxQueueRuns == 3

\* a window's budget for a direct, a queued and a quarantine request
QueueBudget == 6

\* force-checked messages of a member in quarantine and of another member,
\* with one classification call at a time
NextQueue ==
    \/ ClassifySteps(1..MaxQueueRuns, Users, {"picks"}, {"ok"})
    \/ \E r \in 1..MaxQueueRuns : Quarantine(r)

SpecQueue == InitQuarantined(QueueBudget) /\ [][NextQueue]_vars

\* the runs waiting in pendingQueue
Waiting == {pendingQueue[i] : i \in 1..Len(pendingQueue)}

\* pendingQueue is served from its head and extended at its end
QueueStep ==
    \E k \in 0..Len(pendingQueue) :
        /\ Len(pendingQueue') >= Len(pendingQueue) - k
        /\ \A i \in 1..(Len(pendingQueue) - k) : pendingQueue'[i] = pendingQueue[k + i]

\* C22: the requests that had to wait leave pendingQueue in the order in which
\* they entered it, and no step starts the external call of a request that is
\* made later, for a message delivered later, than a request that waits in
\* pendingQueue before the step and still waits there after it (a request that
\* took its call slot at line 1660 before the step was made earlier)
C22_WaitingServedFirst ==
    [][/\ QueueStep
       /\ \A q, r \in 1..MaxQueueRuns :
             ~(/\ q \in Waiting
               /\ q \in Waiting'
               /\ messageId[r] > messageId[q]
               /\ pc[r] \notin {"call", "direct"}
               /\ pc'[r] = "call")]_vars

\* a window's budget for four classifications and an adjudication
AllowBudget == 8

\* the runs of SpecAllowlist: those messages and two more
AllowRuns == 1..(MaxAllowRuns + 2)

\* "sweaty lobby" of a member who is not in quarantine and then of one who is,
\* then "you honky" of the former, every classification answered FLAG_HATE and
\* every adjudication STRIKE
NextAllowlist ==
    \/ \E r \in 1..MaxAllowRuns : Receive(r, {"u1"}, {"sweaty"})
    \/ Receive(MaxAllowRuns + 1, {"u2"}, {"sweaty"})
    \/ Receive(MaxAllowRuns + 2, {"u1"}, {"slur"})
    \/ \E r \in AllowRuns : Screen(r)
    \/ \E r \in AllowRuns : Budget(r)
    \/ \E r \in AllowRuns : Direct(r)
    \/ \E r \in AllowRuns : Enqueue(r)
    \/ \E r \in AllowRuns : CallReturn(r, {"flag_hate"})
    \/ \E r \in AllowRuns : Enforce(r)
    \/ \E r \in AllowRuns : Quarantine(r)
    \/ \E r \in AllowRuns : Decide(r)
    \/ \E r \in AllowRuns : VerifyReturn(r, {"strike"})
    \/ \E r \in AllowRuns : CreateStrike(r)
    \/ \E r \in AllowRuns : CountStrikes(r)
    \/ \E r \in AllowRuns : PermMute(r)

SpecAllowlist == InitQuarantined(AllowBudget) /\ [][NextAllowlist]_vars

\* the message of run r contains an allowlisted term and no severe slur
AllowlistedText(r) ==
    /\ content[r] \in AllTexts
    /\ TextFacts[content[r]].allow
    /\ ~TextFacts[content[r]].hate

\* C23: a message whose text contains an allowlisted term and no severe slur
\* is not deleted when the result held for it is of the hate category, and no
\* strike of the hate category is stored for it, whether the result came from
\* a fresh call, from the cache or on the quarantine path
C23_AllowlistedNotPunishedForHate ==
    \A r \in RunIds :
        AllowlistedText(r) =>
            /\ deleted[r] => result[r].category # "FLAG_HATE"
            /\ \A s \in strikes : s.messageId = r => s.category # "FLAG_HATE"

\* C23 witness: three allowlisted messages answered or cached as FLAG_HATE, one
\* on a fresh call of the ordinary path, one on a cache hit and one on the
\* quarantine path, all three handled and left in the channel, and a message
\* with a severe slur deleted on the same result
C23_Witness ==
    /\ \E r \in RunIds :
          /\ AllowlistedText(r) /\ pc[r] = "done" /\ path[r] \in {"direct", "queue"}
          /\ outcome[r] = "answered" /\ ~deleted[r]
    /\ \E r \in RunIds :
          /\ AllowlistedText(r) /\ pc[r] = "done" /\ path[r] = "cache"
          /\ result[r].category = "FLAG_HATE" /\ ~deleted[r]
    /\ \E r \in RunIds :
          /\ AllowlistedText(r) /\ pc[r] = "done" /\ path[r] = "quar"
          /\ result[r].category = "FLAG_HATE" /\ ~deleted[r]

\* C24: messageCache holds no entry of the hate category for a text that
\* contains an allowlisted term and no severe slur
C24_NoHateEntryForAllowlisted ==
    \A t \in AllTexts :
        TextFacts[t].allow /\ ~TextFacts[t].hate =>
            messageCache[t].category # "FLAG_HATE"

\* the platform action of a step that fails, if any: message.delete(),
\* ensureMutedRole (guild.roles.fetch, guild.roles.create), member.roles.add,
\* the direct message
FloodFailures == {"none", "delete", "ensureRole", "addRole"}
FlaggedFailures == {"none", "delete", "dm"}
MuteFailures == {"none", "ensureRole", "addRole"}

\* lines 1596-1598: the flood is punished; message.delete() is in a try of its
\* own, muteMember catches member.roles.add (lines 609-622) but calls
\* ensureMutedRole before its try (line 608), and messageCreate has no try
\* around muteMember: an exception of ensureMutedRole leaves the handler
FloodPunishMay(r) ==
    /\ pc[r] = "floodPunish"
    /\ \E f \in FloodFailures :
         /\ deleted' = [deleted EXCEPT ![r] = (f # "delete")]
         /\ IF f = "ensureRole"
              THEN /\ pc' = [pc EXCEPT ![r] = "done"]
                   /\ outcome' = [outcome EXCEPT ![r] = "threw"]
                   /\ UNCHANGED <<mutedRole, muteTimers, muteApplied>>
            ELSE IF f = "addRole"
              THEN /\ pc' = [pc EXCEPT ![r] = "floodStrike"]
                   /\ UNCHANGED <<outcome, mutedRole, muteTimers, muteApplied>>
              ELSE /\ pc' = [pc EXCEPT ![r] = "floodStrike"]
                   /\ MuteMember(author[r], AUTO_MUTE_MINUTES)
                   /\ muteApplied' = [muteApplied EXCEPT ![r] = "timed"]
                   /\ UNCHANGED outcome
    /\ UNCHANGED <<gvars, author, content, messageId, channel, path, result, stage, hung, answer,
                   verification>>
    /\ UNCHANGED <<recentMessages, strikes, quarRole, quarantineMap, activeAtCreate>>
    /\ RecordEnd
    /\ UNCHANGED <<tvars, svars, trace, dvars>>

\* lines 1677-1699: the allowlist safeguard, then message.delete() and the
\* direct message, each in a try of its own, then decideAndApplyStrike
EnforceMay(r) ==
    LET t == content[r] IN
    /\ pc[r] = "enforce"
    /\ IF AllowlistOnly(t, result[r])
         THEN /\ result' = IF path[r] \in {"direct", "queue"}
                             THEN [result EXCEPT ![r] = ResultOK]
                             ELSE result
              /\ pc' = [pc EXCEPT ![r] = "done"]
              /\ UNCHANGED deleted
         ELSE IF result[r].flagged
           THEN /\ \E f \in FlaggedFailures :
                      deleted' = [deleted EXCEPT ![r] = (f # "delete")]
                /\ pc' = [pc EXCEPT ![r] = "decide"]
                /\ UNCHANGED result
           ELSE /\ pc' = [pc EXCEPT ![r] = "done"]
                /\ UNCHANGED <<result, deleted>>
    /\ UNCHANGED <<gvars, author, content, messageId, channel, path, stage, hung, answer,
                   verification, outcome>>
    /\ UNCHANGED <<recentMessages, strikes, mutedRole, muteTimers, muteApplied, quarRole,
                   quarantineMap, activeAtCreate>>
    /\ RecordEnd
    /\ UNCHANGED <<tvars, svars, trace, dvars>>

\* lines 393-402 and 1603-1606: the count is compared with the threshold; the
\* timed mute of a hate or nsfw strike may fail, inside the try of lines 383-402
CountStrikesMay(r) ==
    /\ pc[r] = "countStrikes"
    /\ IF ReachedThreshold(CountActiveStrikes(strikes, author[r]))
         THEN /\ pc' = [pc EXCEPT ![r] = "permMute"]
              /\ UNCHANGED <<mutedRole, muteTimers, muteApplied>>
         ELSE /\ pc' = [pc EXCEPT ![r] = "done"]
              /\ IF path[r] # "flood" /\ result[r].category \in {"FLAG_HATE", "FLAG_NSFW"}
                   THEN \E f \in MuteFailures :
                          IF f = "none"
                            THEN /\ MuteMember(author[r], AUTO_MUTE_MINUTES * 3)
                                 /\ muteApplied' = [muteApplied EXCEPT ![r] = "timed"]
                            ELSE UNCHANGED <<mutedRole, muteTimers, muteApplied>>
                   ELSE UNCHANGED <<mutedRole, muteTimers, muteApplied>>
    /\ UNCHANGED <<gvars, author, content, messageId, channel, path, result, stage, hung, answer,
                   verification, outcome,
                   deleted>>
    /\ UNCHANGED <<recentMessages, strikes, quarRole, quarantineMap, activeAtCreate>>
    /\ RecordEnd
    /\ UNCHANGED <<tvars, svars, trace, dvars>>

\* lines 624-637: muteMemberForever catches every failure of its own
PermMuteMay(r) ==
    /\ pc[r] = "permMute"
    /\ \E f \in MuteFailures :
         IF f = "none"
           THEN /\ mutedRole' = mutedRole \cup {author[r]}
                /\ muteApplied' = [muteApplied EXCEPT ![r] = "forever"]
           ELSE UNCHANGED <<mutedRole, muteApplied>>
    /\ pc' = [pc EXCEPT ![r] = "done"]
    /\ UNCHANGED <<gvars, author, content, messageId, channel, path, result, stage, hung, answer,
                   verification, outcome,
                   deleted>>
    /\ UNCHANGED <<recentMessages, strikes, muteTimers, quarRole, quarantineMap,
                   activeAtCreate>>
    /\ RecordEnd
    /\ UNCHANGED <<tvars, svars, trace, dvars>>

\* a window's budget for one classification and its adjudication
FailingBudget == 3

\* "dm for picks, $20 each" posted up to three times by either member, flagged
\* and adjudicated, then punished as a flood, with platform actions that fail
NextFailing ==
    \/ \E r \in 1..MaxFloodRuns : Receive(r, Users, {"picks"})
    \/ \E r \in 1..MaxFloodRuns : Screen(r)
    \/ \E r \in 1..MaxFloodRuns : Budget(r)
    \/ \E r \in 1..MaxFloodRuns : Direct(r)
    \/ \E r \in 1..MaxFloodRuns : Enqueue(r)
    \/ \E r \in 1..MaxFloodRuns : CallReturn(r, {"flag_hate"})
    \/ \E r \in 1..MaxFloodRuns : EnforceMay(r)
    \/ \E r \in 1..MaxFloodRuns : Decide(r)
    \/ \E r \in 1..MaxFloodRuns : VerifyReturn(r, {"strike"})
    \/ \E r \in 1..MaxFloodRuns : CreateStrike(r)
    \/ \E r \in 1..MaxFloodRuns : FloodPunishMay(r)
    \/ \E r \in 1..MaxFloodRuns : FloodStrike(r)
    \/ \E r \in 1..MaxFloodRuns : CountStrikesMay(r)
    \/ \E r \in 1..MaxFloodRuns : PermMuteMay(r)

SpecFailing == InitPlain(FailingBudget) /\ [][NextFailing]_vars

\* C25: whichever platform action of a moderation flow fails, the flow goes on
\* to its later actions: a handler that found a flood, or whose flagged
\* message was adjudicated STRIKE, does not end before the strike is stored
C25_FailureDoesNotStopFlow ==
    \A r \in RunIds :
        /\ pc[r] = "done"
        /\ path[r] = "flood" \/ verification[r].strike
        => \E s \in strikes : s.messageId = r /\ s.userId = author[r]

\* the stored rows when u1 is two strikes short of the threshold
TwoShortStrikes == {s \in EarlierStrikes : s.id # 0 - PriorStrikes[s.userId]}

InitTwoShort ==
    /\ PipelineStartWith(TwoShortStrikes)
    /\ openai = TRUE
    /\ MAX_OPENAI_PER_MIN = EscalateBudget
    /\ CONCURRENCY = 1
    /\ quarRole = {}
    /\ quarantineMap = [u \in Users |-> -1]
    /\ TicketIdle
    /\ SweepIdle
    /\ trace = <<>>
    /\ DmIdle

\* the flows of SpecEscalate from that start
SpecTwoShort == InitTwoShort /\ [][NextEscalate]_vars

\* run r is a strike flow that has ended: the flood detector fired or the
\* adjudicator said STRIKE
StrikeFlowEnded(r) ==
    /\ pc[r] = "done"
    /\ path[r] = "flood" \/ verification[r].strike

MemberLeaves(u) ==
    /\ u \in members
    /\ sweep = NoSweep
    /\ members' = members \ {u}
    /\ quarRole' = quarRole \ {u}
    /\ joinedAt' = [joinedAt EXCEPT ![u] = -1]
    /\ UNCHANGED <<quarantineMap, accountCreatedAt, sweep, sweepLog, trace, dvars>>
    /\ UNCHANGED <<recentMessages, strikes, mutedRole, muteTimers, muteApplied,
                   activeAtCreate, endMuted>>
    /\ UNCHANGED <<gvars, rvars, tvars>>

\* nobody has joined yet; the account of u2 is a day old, that of u1 is older
\* than the age limit
InitLeave ==
    /\ PipelineStart
    /\ openai = TRUE
    /\ MAX_OPENAI_PER_MIN = SkipBudget
    /\ CONCURRENCY = 1
    /\ quarRole = {}
    /\ quarantineMap = [u \in Users |-> -1]
    /\ TicketIdle
    /\ members = {}
    /\ accountCreatedAt = [u \in Users |->
           IF u = "u2" THEN StartSec - DaySec
                       ELSE StartSec - (ACCOUNT_AGE_LIMIT_DAYS + 10) * DaySec]
    /\ joinedAt = [u \in Users |-> -1]
    /\ sweep = NoSweep
    /\ sweepLog = <<>>
    /\ trace = <<>>
    /\ DmIdle

\* joins, departures and hourly sweeps while the clock advances
NextLeave ==
    \/ \E u \in Users : guildMemberAdd(u)
    \/ \E u \in Users : MemberLeaves(u)
    \/ SweepStart
    \/ \E u \in Users : SweepMember(u)
    \/ \E u \in Users : SweepRecord(u)
    \/ HoursPass

SpecLeave == InitLeave /\ [][NextLeave]_vars

\* C27: a member with a record in quarantineMap holds the quarantine role, and
\* every step in which the bot takes the role from a member also removes the
\* member's record
C27_RecordOnlyWithRole ==
    /\ [](\A u \in Users : quarantineMap[u] # -1 => u \in quarRole)
    /\ [][\A u \in Users :
            u \in quarRole /\ u \notin quarRole' /\ u \in members'
                => quarantineMap'[u] = -1]_vars

\* calls of allowOpenAICall in one behaviour
MaxWindowCalls == 6

\* steps of the clock while allowOpenAICall is called
MaxWindowSteps == 4

\* one step of that clock: 20 seconds
WindowStepSec == 4 * 5

\* line 200: allowOpenAICall, called on its own; the call, its time and its
\* return value are kept
allowOpenAICall ==
    /\ Len(trace) < MaxWindowCalls
    /\ windowStart' = AllowOpenAICall(G).ws
    /\ callsThisWindow' = AllowOpenAICall(G).calls
    /\ trace' = Append(trace, Called("allowOpenAICall", <<>>, AllowOk(G),
                                     <<windowStart, callsThisWindow>>))
    /\ UNCHANGED <<now, activeCalls, pendingQueue, messageCache, cfg>>
    /\ UNCHANGED <<rvars, mvars, tvars, svars, dvars>>

SecondsPass ==
    /\ now < StartSec + MaxWindowSteps * WindowStepSec
    /\ now' = now + WindowStepSec
    /\ UNCHANGED <<windowStart, callsThisWindow, activeCalls, pendingQueue,
                   messageCache, cfg>>
    /\ UNCHANGED <<rvars, mvars, tvars, svars, trace, dvars>>

\* the budget of a window while allowOpenAICall is called on its own
WindowBudget == 2

NextWindow ==
    \/ allowOpenAICall
    \/ SecondsPass

SpecWindow == InitPlain(WindowBudget) /\ [][NextWindow]_vars

\* the calls of allowOpenAICall that were granted in the 60 seconds from time t
GrantedFrom(t) ==
    {i \in 1..Len(trace) : /\ trace[i].fn = "allowOpenAICall"
                           /\ trace[i].ret
                           /\ trace[i].at >= t
                           /\ trace[i].at < t + Sec(WindowMs)}

\* C28 (as stated): in any span of 60 seconds allowOpenAICall grants at most
\* MAX_OPENAI_PER_MIN calls: no more than that many grants lie in the 60
\* seconds that begin with any one call
C28_BudgetPerRollingWindow ==
    \A k \in 1..Len(trace) :
        Cardinality(GrantedFrom(trace[k].at)) <= MAX_OPENAI_PER_MIN

\* the calls granted since the window was last reset
GrantedThisWindow ==
    {i \in 1..Len(trace) : /\ trace[i].fn = "allowOpenAICall"
                           /\ trace[i].ret
                           /\ trace[i].at >= windowStart}

\* C28 (amended): the budget is enforced per window that starts when a call
\* finds the previous one at least 60 seconds old: the calls granted since the
\* last reset are exactly callsThisWindow, at most MAX_OPENAI_PER_MIN, and a
\* span of 60 seconds, which meets at most two such windows, holds at most
\* twice MAX_OPENAI_PER_MIN granted calls
C28_BudgetPerResetWindow ==
    /\ Cardinality(GrantedThisWindow) = callsThisWindow
    /\ callsThisWindow <= MAX_OPENAI_PER_MIN
    /\ \A k \in 1..Len(trace) :
          Cardinality(GrantedFrom(trace[k].at)) <= 2 * MAX_OPENAI_PER_MIN

\* C28 witness: a window used up, a call refused in it, and after the reset
\* a second window used up less than 60 seconds after the first grants
C28_Witness ==
    /\ windowStart > StartSec
    /\ callsThisWindow = MAX_OPENAI_PER_MIN
    /\ \E k \in 1..Len(trace) : ~trace[k].ret
    /\ \E k \in 1..Len(trace) :
          Cardinality(GrantedFrom(trace[k].at)) = 2 * MAX_OPENAI_PER_MIN

\* pieces that the classifier's answers are composed of
MaxAnswerPieces == 2

AnswerPieces ==
    {S_FLAG_HATE, R_FlagHate, S_FLAG_NSFW, S_FLAG_BET, S_FLAG_SPAM, S_FLAG, S_OK,
     <<"o", "k">>, <<" ">>, <<"S", "o", "r", "r", "y", "?">>, <<"N", "O", "T">>,
     <<".">>}

RECURSIVE ComposedAnswers(_)
ComposedAnswers(n) ==
    IF n = 0 THEN {<<>>}
    ELSE LET shorter == ComposedAnswers(n - 1) IN
         shorter \cup {a \o piece : a \in shorter, piece \in AnswerPieces}

\* lines 259 and 277-291: the answer is trimmed and mapped to a category,
\* called on its own; the answer and the category are kept
categoryOf(answered) ==
    /\ trace = <<>>
    /\ trace' = <<Called("category", <<answered>>,
                         MapCategory(Trim(answered)),
                         ToUpperCase(Trim(answered)))>>
    /\ UNCHANGED <<gvars, rvars, mvars, tvars, svars, dvars>>

NextCategory == \E answered \in ComposedAnswers(MaxAnswerPieces) : categoryOf(answered)

SpecCategory == InitPolicy /\ [][NextCategory]_vars

\* the flag tokens in their order of priority, each with its category
FlagTokens ==
    <<[token |-> S_FLAG_HATE, category |-> "FLAG_HATE"],
      [token |-> S_FLAG_NSFW, category |-> "FLAG_NSFW"],
      [token |-> S_FLAG_BET, category |-> "FLAG_BET"],
      [token |-> S_FLAG_SPAM, category |-> "FLAG_SPAM"]>>

\* the upper-cased answer is OK: it is OK or contains " OK"
SaysOK(out) == out = S_OK \/ Includes(out, S_SPACE_OK)

\* C29: the category of an answer is that of the first flag token, in the
\* order HATE, NSFW, BET, SPAM, that the upper-cased answer contains; without
\* one it is OK when the answer is OK; and every other answer, which is not
\* recognized and is not OK, gets FLAG_SPAM, never OK
C29_UnrecognizedMapsToSpam ==
    \A k \in 1..Len(trace) :
        trace[k].fn = "category" =>
            LET out == trace[k].saw
                hit == {i \in 1..Len(FlagTokens) : Includes(out, FlagTokens[i].token)}
            IN IF hit # {}
                 THEN \E i \in hit : /\ \A j \in hit : i <= j
                                     /\ trace[k].ret = FlagTokens[i].category
               ELSE IF SaysOK(out) THEN trace[k].ret = "OK"
               ELSE trace[k].ret = "FLAG_SPAM"

\* lines 52 and 154: the admin user and the advertising channel, by name
ADMIN_USER == "admin"
AD_CHANNEL == "ads"

\* the channels of the guild, by name
Channels == {"general", AD_CHANNEL}

\* (mutant) an entry that records the message for the flood detector before it
\* looks at the advertising channel
ReceiveInLate(r, U, T, Ch) ==
    /\ pc[r] = "idle"
    /\ IF r = 1 THEN TRUE ELSE pc[r - 1] # "idle"
    /\ \E u \in U, t \in T, ch \in Ch :
         /\ author' = [author EXCEPT ![r] = u]
         /\ content' = [content EXCEPT ![r] = t]
         /\ messageId' = [messageId EXCEPT ![r] = r]
         /\ channel' = [channel EXCEPT ![r] = ch]
         /\ recentMessages' =
              IF u \in Users
                THEN [recentMessages EXCEPT ![u] = AddRecentMessage(@, t)]
                ELSE recentMessages
         /\ IF u = ADMIN_USER
              THEN /\ pc' = [pc EXCEPT ![r] = "done"]
                   /\ path' = [path EXCEPT ![r] = "admin"]
            ELSE IF ch = AD_CHANNEL
              THEN /\ pc' = [pc EXCEPT ![r] = "done"]
                   /\ path' = [path EXCEPT ![r] = "adChannel"]
            ELSE /\ pc' = [pc EXCEPT ![r] = IF u \in quarRole THEN "quarantine"
                                            ELSE "screen"]
                 /\ path' = [path EXCEPT ![r] = IF u \in quarRole THEN "quar" ELSE "none"]
    /\ UNCHANGED <<gvars, result, stage, hung, answer, verification, outcome, deleted>>
    /\ UNCHANGED <<strikes, mutedRole, muteTimers, muteApplied, quarRole,
                   quarantineMap, activeAtCreate>>
    /\ RecordEnd
    /\ UNCHANGED <<tvars, svars, trace, dvars>>

\* lines 1420-1457: a message arrives in a channel; the handler returns at once
\* for the admin user (line 1424) and for the advertising channel (line 1451)
ReceiveIn(r, U, T, Ch) ==
    /\ pc[r] = "idle"
    /\ IF r = 1 THEN TRUE ELSE pc[r - 1] # "idle"
    /\ \E u \in U, t \in T, ch \in Ch :
         /\ author' = [author EXCEPT ![r] = u]
         /\ content' = [content EXCEPT ![r] = t]
         /\ messageId' = [messageId EXCEPT ![r] = r]
         /\ channel' = [channel EXCEPT ![r] = ch]
         /\ IF u = ADMIN_USER
              THEN /\ pc' = [pc EXCEPT ![r] = "done"]
                   /\ path' = [path EXCEPT ![r] = "admin"]
            ELSE IF ch = AD_CHANNEL
              THEN /\ pc' = [pc EXCEPT ![r] = "done"]
                   /\ path' = [path EXCEPT ![r] = "adChannel"]
            ELSE /\ pc' = [pc EXCEPT ![r] = IF u \in quarRole THEN "quarantine"
                                            ELSE "screen"]
                 /\ path' = [path EXCEPT ![r] = IF u \in quarRole THEN "quar" ELSE "none"]
    /\ UNCHANGED <<gvars, result, stage, hung, answer, verification, outcome, deleted>>
    /\ UNCHANGED <<recentMessages, strikes, mutedRole, muteTimers, muteApplied, quarRole,
                   quarantineMap, activeAtCreate>>
    /\ RecordEnd
    /\ UNCHANGED <<tvars, svars, trace, dvars>>

\* "dm for picks, $20 each" posted by the admin user and by another member, in
\* the advertising channel and elsewhere; every classification is answered
\* FLAG_BET and every adjudication STRIKE
NextBypass ==
    \/ \E r \in 1..MaxFloodRuns : ReceiveIn(r, {"u1", ADMIN_USER}, {"picks"}, Channels)
    \/ \E r \in 1..MaxFloodRuns : Screen(r)
    \/ \E r \in 1..MaxFloodRuns : Budget(r)
    \/ \E r \in 1..MaxFloodRuns : Direct(r)
    \/ \E r \in 1..MaxFloodRuns : Enqueue(r)
    \/ \E r \in 1..MaxFloodRuns : CallReturn(r, {"flag_bet"})
    \/ \E r \in 1..MaxFloodRuns : Enforce(r)
    \/ \E r \in 1..MaxFloodRuns : Decide(r)
    \/ \E r \in 1..MaxFloodRuns : VerifyReturn(r, {"strike"})
    \/ \E r \in 1..MaxFloodRuns : CreateStrike(r)
    \/ \E r \in 1..MaxFloodRuns : FloodPunish(r)
    \/ \E r \in 1..MaxFloodRuns : FloodStrike(r)
    \/ \E r \in 1..MaxFloodRuns : CountStrikes(r)
    \/ \E r \in 1..MaxFloodRuns : PermMute(r)

SpecBypass == InitPlain(EscalateBudget) /\ [][NextBypass]_vars

\* the handler of run r returned at the admin or the advertising-channel test
Bypassed(r) == path[r] \in {"admin", "adChannel"}

\* C30: a message of the admin user or in the advertising channel is never
\* deleted and draws no strike and no mute, and the step that handles it leaves
\* the flood-tracking window, the call budget, the queue and the cache as they
\* were
C30_BypassTouchesNothing ==
    /\ [](\A r \in RunIds :
            Bypassed(r) => /\ pc[r] = "done"
                           /\ ~deleted[r]
                           /\ StrikesOf(r) = {}
                           /\ muteApplied[r] = "none")
    /\ [][\A r \in RunIds :
            ~Bypassed(r) /\ Bypassed(r)' =>
                UNCHANGED <<recentMessages, windowStart, callsThisWindow, activeCalls,
                            pendingQueue, messageCache, strikes, mutedRole,
                            muteTimers>>]_vars

\* C30 witness: the same text handled three times: posted by the admin user
\* and posted in the advertising channel by another member it was left alone,
\* posted elsewhere it was deleted and struck
C30_Witness ==
    \E r1, r2, r3 \in RunIds :
        /\ path[r1] = "admin" /\ path[r2] = "adChannel" /\ author[r2] \in Users
        /\ content[r1] = content[r3] /\ content[r2] = content[r3]
        /\ ~deleted[r1] /\ ~deleted[r2]
        /\ pc[r3] = "done" /\ deleted[r3] /\ StrikesOf(r3) # {}

----------------------------------------------------------------------------
(* Claims about the matchmaking channel, mutes, locks and the queues *)

\* line 140: the matchmaking channel, by name
MATCH_CHANNEL == "match"

\* the members who hold the Moderator role or the ManageGuild permission
Moderators == {"u2"}

\* line 143: MATCH_ALLOWED_PREFIX_REGEX.test(s),
\* /^\s*(?:code(?:s)?\b|code\?|5(?:\.|\b)|s(?:\.|\b))/i
MatchAllowedPrefix(s) ==
    LET t == ToLowerCase(s) IN
    \E i \in {0} \cup SpacesFrom(t, 0) :
        \/ At(t, i, <<"c", "o", "d", "e">>) /\ WordBoundary(t, i + 4)
        \/ At(t, i, <<"c", "o", "d", "e", "s">>) /\ WordBoundary(t, i + 5)
        \/ At(t, i, <<"c", "o", "d", "e", "?">>)
        \/ At(t, i, <<"5">>) /\ (At(t, i + 1, <<".">>) \/ WordBoundary(t, i + 1))
        \/ At(t, i, <<"s">>) /\ (At(t, i + 1, <<".">>) \/ WordBoundary(t, i + 1))

\* the alternatives of MATCH_HEURISTIC_REGEX that are fixed strings
MatchLiterals ==
    {<<"l", "f", "5">>, <<"l", "f", "g">>, <<"5", "v", "5">>, <<"5", "v", "5", "s">>,
     <<"l", "o", "o", "k", "i", "n", "g", " ", "f", "o", "r", " ", "5", "v", "5">>,
     <<"l", "o", "o", "k", "i", "n", "g", " ", "f", "o", "r", " ", "5">>,
     <<"l", "o", "o", "k", "i", "n", "g", " ", "f", "o", "r", " ", "p", "l", "a", "y", "e", "r", "s">>,
     <<"l", "o", "o", "k", "i", "n", "g", " ", "f", "o", "r", " ", "a", " ", "t", "e", "a", "m">>}

\* its alternatives that are words with \s+ between them
MatchPhrases ==
    {<<(<<"t", "e", "a", "m">>), (<<"o", "f">>), (<<"5">>)>>,
     <<(<<"w", "a", "n", "t">>), (<<"5", "v", "5">>)>>}

\* need\s+\d+ after position i: the positions where it may end
NeedNumberEnds(t, i) ==
    IF ~At(t, i, <<"n", "e", "e", "d">>) THEN {}
    ELSE UNION {DigitsFrom(t, j, Len(t)) : j \in SpacesFrom(t, i + 4)}

\* need\s+\d+, need\s+\d+\s+more, need\s+\d+\s+(?:more\s+)?(?:players|people)
\* after position i: the positions where they may end (need\s+4 and the like
\* are cases of need\s+\d+)
NeedEnds(t, i) ==
    LET n    == NeedNumberEnds(t, i)
        sp   == UNION {SpacesFrom(t, j) : j \in n}
        more == {j + 4 : j \in {k \in sp : At(t, k, <<"m", "o", "r", "e">>)}}
        who  == sp \cup UNION {SpacesFrom(t, j) : j \in more}
    IN  n \cup more
          \cup {j + 7 : j \in {k \in who : At(t, k, <<"p", "l", "a", "y", "e", "r", "s">>)}}
          \cup {j + 6 : j \in {k \in who : At(t, k, <<"p", "e", "o", "p", "l", "e">>)}}

\* line 147: MATCH_HEURISTIC_REGEX.test(s), /\b(?:lf5|lfg|...|want\s+5v5)\b/i
MatchHeuristic(s) ==
    LET t == ToLowerCase(s) IN
    \/ \E i \in 0..Len(t) :
         /\ WordBoundary(t, i)
         /\ \/ \E l \in MatchLiterals : At(t, i, l) /\ WordBoundary(t, i + Len(l))
            \/ \E j \in NeedEnds(t, i) : WordBoundary(t, j)
    \/ MatchesPhrase(t, MatchPhrases)

\* lines 1472-1479: what the two patterns say of each text, trimmed
MatchFacts ==
    [t \in AllTexts |-> [prefix |-> MatchAllowedPrefix(Trim(TextOf(t))),
                         heuristic |-> MatchHeuristic(Trim(TextOf(t)))]]

\* lines 1466-1482: the message of member u with text t may stay in the
\* matchmaking channel
MatchAllowed(u, t) ==
    \/ u \in Moderators
    \/ u = ADMIN_USER
    \/ MatchFacts[t].prefix
    \/ MatchFacts[t].heuristic

\* (mutant) an entry that removes a post from the matchmaking channel and goes
\* on to the regular moderation of it
ReceiveAtFallthrough(r, U, T, Ch) ==
    /\ pc[r] = "idle"
    /\ IF r = 1 THEN TRUE ELSE pc[r - 1] # "idle"
    /\ \E u \in U, t \in T, ch \in Ch :
         /\ author' = [author EXCEPT ![r] = u]
         /\ content' = [content EXCEPT ![r] = t]
         /\ messageId' = [messageId EXCEPT ![r] = r]
         /\ channel' = [channel EXCEPT ![r] = ch]
         /\ deleted' = [deleted EXCEPT ![r] =
                           u # ADMIN_USER /\ ch = MATCH_CHANNEL /\ ~MatchAllowed(u, t)]
         /\ IF u = ADMIN_USER
              THEN /\ pc' = [pc EXCEPT ![r] = "done"]
                   /\ path' = [path EXCEPT ![r] = "admin"]
            ELSE IF ch = AD_CHANNEL
              THEN /\ pc' = [pc EXCEPT ![r] = "done"]
                   /\ path' = [path EXCEPT ![r] = "adChannel"]
            ELSE /\ pc' = [pc EXCEPT ![r] = IF u \in quarRole THEN "quarantine"
                                            ELSE "screen"]
                 /\ path' = [path EXCEPT ![r] = IF u \in quarRole THEN "quar" ELSE "none"]
    /\ UNCHANGED <<gvars, result, stage, hung, answer, verification, outcome>>
    /\ UNCHANGED <<recentMessages, strikes, mutedRole, muteTimers, muteApplied, quarRole,
                   quarantineMap, activeAtCreate>>
    /\ RecordEnd
    /\ UNCHANGED <<tvars, svars, trace, dvars>>

\* lines 1420-1511: a message arrives in a channel; the handler returns at once
\* for the admin user (line 1424) and for the advertising channel (line 1451),
\* and in the matchmaking channel it deletes a post that may not stay there
\* and returns (lines 1485-1503)
ReceiveAt(r, U, T, Ch) ==
    /\ pc[r] = "idle"
    /\ IF r = 1 THEN TRUE ELSE pc[r - 1] # "idle"
    /\ \E u \in U, t \in T, ch \in Ch :
         /\ author' = [author EXCEPT ![r] = u]
         /\ content' = [content EXCEPT ![r] = t]
         /\ messageId' = [messageId EXCEPT ![r] = r]
         /\ channel' = [channel EXCEPT ![r] = ch]
         /\ IF u = ADMIN_USER
              THEN /\ pc' = [pc EXCEPT ![r] = "done"]
                   /\ path' = [path EXCEPT ![r] = "admin"]
                   /\ UNCHANGED deleted
            ELSE IF ch = AD_CHANNEL
              THEN /\ pc' = [pc EXCEPT ![r] = "done"]
                   /\ path' = [path EXCEPT ![r] = "adChannel"]
                   /\ UNCHANGED deleted
            ELSE IF ch = MATCH_CHANNEL /\ ~MatchAllowed(u, t)
              THEN /\ pc' = [pc EXCEPT ![r] = "done"]
                   /\ path' = [path EXCEPT ![r] = "matchReject"]
                   /\ deleted' = [deleted EXCEPT ![r] = TRUE]
            ELSE /\ pc' = [pc EXCEPT ![r] = IF u \in quarRole THEN "quarantine"
                                            ELSE "screen"]
                 /\ path' = [path EXCEPT ![r] = IF u \in quarRole THEN "quar" ELSE "none"]
                 /\ UNCHANGED deleted
    /\ UNCHANGED <<gvars, result, stage, hung, answer, verification, outcome>>
    /\ UNCHANGED <<recentMessages, strikes, mutedRole, muteTimers, muteApplied, quarRole,
                   quarantineMap, activeAtCreate>>
    /\ RecordEnd
    /\ UNCHANGED <<tvars, svars, trace, dvars>>

\* messages handled at the same time in and outside the matchmaking channel
MaxMatchRuns == 2

\* a window's budget for two classifications and two adjudications
MatchBudget == 4

\* "hello there", "Codes 4411" or "5v5 tonight?" posted by a member in the
\* matchmaking channel, then "hello there" posted by that member and by a
\* moderator, there and elsewhere; every classification is answered FLAG_BET
\* and every adjudication STRIKE
NextMatch ==
    \/ ReceiveAt(1, {"u1"}, {"hello", "codes", "fives"}, {MATCH_CHANNEL})
    \/ \E r \in 2..MaxMatchRuns :
          ReceiveAt(r, Users, {"hello"}, {"general", MATCH_CHANNEL})
    \/ \E r \in 1..MaxMatchRuns : Screen(r)
    \/ \E r \in 1..MaxMatchRuns : Budget(r)
    \/ \E r \in 1..MaxMatchRuns : Direct(r)
    \/ \E r \in 1..MaxMatchRuns : Enqueue(r)
    \/ \E r \in 1..MaxMatchRuns : CallReturn(r, {"flag_bet"})
    \/ \E r \in 1..MaxMatchRuns : Enforce(r)
    \/ \E r \in 1..MaxMatchRuns : Decide(r)
    \/ \E r \in 1..MaxMatchRuns : VerifyReturn(r, {"strike"})
    \/ \E r \in 1..MaxMatchRuns : CreateStrike(r)
    \/ \E r \in 1..MaxMatchRuns : CountStrikes(r)
    \/ \E r \in 1..MaxMatchRuns : PermMute(r)

SpecMatch == InitPlain(MatchBudget) /\ [][NextMatch]_vars

\* the message of run r is in the matchmaking channel, its author is no
\* moderator, server manager or admin, and its text has neither the allowed
\* prefix nor the look of a matchmaking post
StrayInMatch(r) ==
    /\ channel[r] = MATCH_CHANNEL
    /\ author[r] \notin Moderators \cup {ADMIN_USER}
    /\ content[r] \in AllTexts
    /\ ~MatchFacts[content[r]].prefix
    /\ ~MatchFacts[content[r]].heuristic

UnmuteTimerFires(t) ==
    /\ t \in muteTimers
    /\ now >= t.at
    /\ mutedRole' = mutedRole \ {t.user}
    /\ muteTimers' = muteTimers \ {t}
    /\ UNCHANGED <<gvars, rvars>>
    /\ UNCHANGED <<recentMessages, strikes, muteApplied, quarRole, quarantineMap,
                   activeAtCreate, endMuted>>
    /\ UNCHANGED <<tvars, svars, trace, dvars>>

\* the timers that may be pending: of a flood mute and of a hate or NSFW mute
\* armed at any moment of the model
MuteTimerSet ==
    {[user |-> u, at |-> StartSec + k * CacheStepSec + m * 60] :
        u \in Users, k \in 0..MaxCacheSteps, m \in {AUTO_MUTE_MINUTES, AUTO_MUTE_MINUTES * 3}}

\* "dm for picks, $20 each" posted three times by the member who is one strike
\* short of the threshold, every classification answered OK, while the minutes
\* pass and the unmute timers fire
NextForever ==
    \/ ClassifySteps(1..MaxFloodRuns, {"u1"}, {"picks"}, {"ok"})
    \/ \E r \in 1..MaxFloodRuns : FloodPunish(r)
    \/ \E r \in 1..MaxFloodRuns : FloodStrike(r)
    \/ \E r \in 1..MaxFloodRuns : CountStrikes(r)
    \/ \E r \in 1..MaxFloodRuns : PermMute(r)
    \/ \E t \in MuteTimerSet : UnmuteTimerFires(t)
    \/ MinutesPass

SpecForever == InitPlain(EscalateBudget) /\ [][NextForever]_vars

\* the members a run has muted forever for reaching the strike threshold
MutedForever == {author[r] : r \in {q \in RunIds : muteApplied[q] = "forever"}}

\* C32: a member who holds the Muted role because a run muted them forever
\* keeps the role in every step of the bot
C32_ForeverMuteStays ==
    [][\A u \in Users : u \in MutedForever /\ u \in mutedRole => u \in mutedRole']_vars

\* the clock steps of a behaviour with timed mutes, each of MuteStepSec
MaxMuteSteps == 3

MuteStepSec == AUTO_MUTE_MINUTES * 60

\* AUTO_MUTE_MINUTES pass
MuteMinutesPass ==
    /\ now < StartSec + MaxMuteSteps * MuteStepSec
    /\ now' = now + MuteStepSec
    /\ UNCHANGED <<windowStart, callsThisWindow, activeCalls, pendingQueue,
                   messageCache, cfg>>
    /\ UNCHANGED <<rvars, mvars, tvars, svars, trace, dvars>>

\* messages that draw a timed mute
MaxMuteRuns == 2

\* a window's budget for a classification (counted twice) and its adjudication
MuteBudget == 3

\* the timers that may be pending in SpecTimed
TimedMuteTimers ==
    {[user |-> u, at |-> StartSec + k * MuteStepSec + AUTO_MUTE_MINUTES * 3 * 60] :
        u \in Users, k \in 0..MaxMuteSteps}

\* "you honky" posted by the member without strikes, every classification
\* answered FLAG_HATE and every adjudication STRIKE, while the minutes pass and
\* the unmute timers fire
NextTimed ==
    \/ ClassifySteps(1..MaxMuteRuns, {"u2"}, {"slur"}, {"flag_hate"})
    \/ \E r \in 1..MaxMuteRuns : Decide(r)
    \/ \E r \in 1..MaxMuteRuns : VerifyReturn(r, {"strike"})
    \/ \E r \in 1..MaxMuteRuns : CreateStrike(r)
    \/ \E r \in 1..MaxMuteRuns : CountStrikes(r)
    \/ \E t \in TimedMuteTimers : UnmuteTimerFires(t)
    \/ MuteMinutesPass

SpecTimed == InitPlain(MuteBudget) /\ [][NextTimed]_vars

\* C33: while the M minutes of a timed mute have not passed since muteMember
\* applied it (its own timer, armed for that moment, is still ahead), the
\* member holds the Muted role
C33_TimedMuteLastsItsMinutes ==
    \A t \in muteTimers : now < t.at => t.user \in mutedRole

\* C34: a step that resolves the lock of call l, or deletes it from under the
\* key, is the finally block of call l itself or the firing of the TTL timer
\* of that lock
C34_LockReleasedByOwnerOnly ==
    [][\A l \in TCalls :
          (\/ ~lockResolved[l] /\ lockResolved'[l]
           \/ lockInMap = l /\ lockInMap' = 0)
          => \/ tpc[l] # "done" /\ tpc'[l] = "done"
             \/ lockTimer[l] = "armed" /\ lockTimer'[l] = "fired"]_vars

\* the last sweep that ended found the record of u at least 72 hours old and
\* released u, who holds neither the role nor a record since
ReleasedByExpiry(u) ==
    /\ sweepLog # <<>>
    /\ LET e == sweepLog[Len(sweepLog)] IN
         /\ e.map[u] # -1
         /\ e.at - e.map[u] >= Sec(SEVENTY_TWO_HOURS)
    /\ quarantineMap[u] = -1
    /\ u \notin quarRole

\* C35: no step of a sweep puts the Quarantined role on a member whom the
\* sweep before it released because the 72 hours had passed
C35_ReleasedStaysClear ==
    [][\A u \in Users :
          ReleasedByExpiry(u) /\ sweep.pc # "idle" => u \notin quarRole']_vars

\* messages whose requests meet at the gateway
MaxDrainRuns == 3

\* a window's budget that runs out while requests wait
DrainBudget == 5

\* classification requests of one call slot, direct and queued, for "dm for
\* picks, $20 each" and then "you honky" again and again, every external call
\* answered OK
NextDrain ==
    \/ Receive(1, {"u1"}, {"picks"})
    \/ \E r \in 2..MaxDrainRuns : Receive(r, {"u1"}, {"slur"})
    \/ \E r \in 1..MaxDrainRuns : Screen(r)
    \/ \E r \in 1..MaxDrainRuns : Budget(r)
    \/ \E r \in 1..MaxDrainRuns : Direct(r)
    \/ \E r \in 1..MaxDrainRuns : Enqueue(r)
    \/ \E r \in 1..MaxDrainRuns : CallReturn(r, {"ok"})
    \/ \E r \in 1..MaxDrainRuns : Enforce(r)
    \/ \E r \in 1..MaxDrainRuns : ChatFail(r)
    \/ \E r \in 1..MaxDrainRuns : CallFail(r)

\* The event loop runs the continuation of a handler that took a call slot:
\* the await of line 1662 returns and the handler calls performOpenAICall.
FairSpecDrain ==
    /\ InitPlain(DrainBudget)
    /\ [][NextDrain]_vars
    /\ WF_vars(\E r \in 1..MaxDrainRuns : Direct(r))

\* every external call that was started completes
CallsComplete == \A r \in 1..MaxDrainRuns : []<>(pc[r] # "call")

\* the runs that hold a call slot: between taking it and the settling of
\* their request
SlotHolders ==
    {r \in RunIds : pc[r] \in {"direct", "call"} /\ path[r] \in {"direct", "queue"}}

\* the requests that were taken out of pendingQueue
Dequeued == {r \in RunIds : path[r] = "queue" /\ pc[r] \notin {"enqueue", "queued"}}

\* C36: while a request waits in pendingQueue every call slot is held by a
\* request whose settling runs the drain; a request that was taken out of
\* pendingQueue has its call in flight or has been resolved with a result; and,
\* provided every external call that was started completes, every request
\* that waits in pendingQueue is eventually taken out of it and resolved
C36_QueuedEventuallyResolved ==
    /\ [](pendingQueue # <<>> =>
             /\ activeCalls >= CONCURRENCY
             /\ activeCalls = Cardinality(SlotHolders))
    /\ [](\A r \in Dequeued : pc[r] = "call" \/ result[r] # NoResult)
    /\ CallsComplete =>
          \A r \in 1..MaxDrainRuns :
              (pc[r] = "queued") ~> (r \in Dequeued /\ result[r] # NoResult)

\* C36 witness: two requests waited in pendingQueue behind a direct call; both
\* were resolved, one of them by an answer of the classifier
C36_Witness ==
    \E q, r \in 1..MaxDrainRuns :
        /\ q # r
        /\ path[q] = "queue" /\ path[r] = "queue"
        /\ pc[q] = "done" /\ pc[r] = "done"
        /\ outcome[q] = "answered"
        /\ pendingQueue = <<>>

\* C37: a createTicketChannel call that ended by throwing has left no channel
\* that it created on the platform without a ticket row
C37_ThrowLeavesNoOrphanChannel ==
    \A c \in TCalls :
        tpc[c] = "done" /\ ret[c] = -1 => ~(chanExists[c] /\ rowState[c] = "none")

\* messages of one burst: three equal ones fire the detector, one more follows
MaxBurstRuns == 4

\* a budget that no message of the burst exhausts
BurstBudget == 5

\* "hello" posted MaxBurstRuns times within one second by the member without
\* strikes, every classification answered OK
NextBurst ==
    \/ ClassifySteps(1..MaxBurstRuns, {"u2"}, {"hello"}, {"ok"})
    \/ \E r \in 1..MaxBurstRuns : FloodPunish(r)
    \/ \E r \in 1..MaxBurstRuns : FloodStrike(r)
    \/ \E r \in 1..MaxBurstRuns : CountStrikes(r)

SpecBurst == InitPlain(BurstBudget) /\ [][NextBurst]_vars

\* the strikes the flood detector recorded (line 1603)
FloodStrikes == {s \in strikes : s.reason = "spam_detection"}

\* C38: the flood detector records one strike per burst: no two of its strikes
\* of one member are recorded within one flood window
C38_OneStrikePerBurst ==
    \A s1, s2 \in FloodStrikes :
        /\ s1.userId = s2.userId
        /\ s1.createdAt <= s2.createdAt
        /\ s2.createdAt - s1.createdAt <= Sec(SPAM_WINDOW_MS)
        => s1.id = s2.id

\* messages with one text: one classified, one refused, one seen again
MaxFailRuns == 3

\* a window's budget that is exhausted between the handler's test and the test
\* of performOpenAICall
FailBudget == 3

\* the client may be configured or not; u2 is in quarantine since the start
InitFailOpen ==
    /\ PipelineStart
    /\ openai \in BOOLEAN
    /\ MAX_OPENAI_PER_MIN = FailBudget
    /\ CONCURRENCY = 1
    /\ quarRole = {"u2"}
    /\ quarantineMap = [u \in Users |-> IF u = "u2" THEN StartSec ELSE -1]
    /\ TicketIdle
    /\ SweepIdle
    /\ trace = <<>>
    /\ DmIdle

\* windows of the budget that pass
MaxFailSteps == 1

\* a window of the budget passes: the next allowOpenAICall resets the window
WindowPasses ==
    /\ now < StartSec + MaxFailSteps * Sec(WindowMs)
    /\ now' = now + Sec(WindowMs)
    /\ UNCHANGED <<windowStart, callsThisWindow, activeCalls, pendingQueue,
                   messageCache, cfg>>
    /\ UNCHANGED <<rvars, mvars, tvars, svars, trace, dvars>>

\* "dm for picks, $20 each" posted in turn by u1 and by u2, who is in
\* quarantine, at most two messages being handled at a time, while a window of
\* the budget passes, with a service that may fail.  The requests of u2 take
\* no slot (line 1547), so no request of u1 finds the slot taken.
NextFailOpen ==
    \/ \E r \in 1..MaxFailRuns :
          /\ \A p \in 1..(r - 2) : pc[p] = "done"
          /\ Receive(r, {IF r % 2 = 1 THEN "u1" ELSE "u2"}, {"picks"})
    \/ \E r \in 1..MaxFailRuns : Quarantine(r)
    \/ \E r \in 1..MaxFailRuns : Screen(r)
    \/ \E r \in 1..MaxFailRuns : Budget(r)
    \/ \E r \in 1..MaxFailRuns : Direct(r)
    \/ \E r \in 1..MaxFailRuns : CallReturn(r, {"ok", "flag_bet"})
    \/ \E r \in 1..MaxFailRuns : ChatFail(r)
    \/ \E r \in 1..MaxFailRuns : CallFail(r)
    \/ \E r \in 1..MaxFailRuns : Enforce(r)
    \/ \E r \in 1..MaxFailRuns : Decide(r)
    \/ \E r \in 1..MaxFailRuns : VerifyReturn(r, {"unclear"})
    \/ WindowPasses

SpecFailOpen == InitFailOpen /\ [][NextFailOpen]_vars

\* the outcomes of performOpenAICall that answer OK for a request it did not
\* send or that failed (lines 237-245, 270-274, 296-300)
FailOpenOutcomes == {"capped", "unconfigured", "failed"}

\* a request for text t had a fail-open outcome
FailedOpen(t) == \E q \in RunIds : content[q] = t /\ outcome[q] \in FailOpenOutcomes

\* a request for text t was answered with a flag by the classifier
FlagAnswered(t) ==
    \E q \in RunIds : content[q] = t /\ outcome[q] = "answered" /\ result[q].flagged

\* run r looks its text up in the cache (lines 1522 and 1619) in this step
LooksUp(r) ==
    /\ pc[r] \in {"screen", "quarantine"}
    /\ pc'[r] # pc[r]
    /\ path'[r] # "flood"

\* the lookup of run r finds an OK and the handler returns without a request
TreatedOK(r) ==
    /\ pc'[r] = "done"
    /\ outcome'[r] = "cacheHit"
    /\ callsThisWindow' = callsThisWindow

SendEnds == {"sent", "rate", "other"}

\* line 1138
IsRate(e) == e = "rate"

\* lines 1121-1131: the loop takes the head of dmQueue and starts its first
\* attempt; with nothing queued the invocation ends (line 1151)
DmTakeNext(q) ==
    IF q # <<>>
      THEN /\ dmQueue' = Tail(q)
           /\ dmInProgress' = TRUE
           /\ dmWorker' = [pc |-> IF 0 <= DefaultMaxRetries THEN "send" ELSE "pause",
                           item |-> Head(q), tries |-> 0]
      ELSE /\ dmQueue' = q
           /\ dmInProgress' = FALSE
           /\ dmWorker' = NoWorker

\* what the steps of the DM queue leave alone
DmFrame == UNCHANGED <<tvars, gvars, rvars, mvars, svars, trace>>

\* lines 1109-1116 and 1118-1120: sendDMWithRetries for item i; a target
\* without an id returns at once, else the item is pushed and processDmQueue
\* is called, which returns at once when an invocation is running
sendDMWithRetries(i) ==
    /\ dmResolved[i] = "none"
    /\ IF i = 1 THEN TRUE ELSE dmResolved[i - 1] # "none"
    /\ \E hasId \in BOOLEAN :
         IF ~hasId
           THEN /\ dmResolved' = [dmResolved EXCEPT ![i] = "noId"]
                /\ UNCHANGED <<dmQueue, dmInProgress, dmWorker>>
           ELSE /\ dmResolved' = [dmResolved EXCEPT ![i] = "pending"]
                /\ IF dmInProgress
                     THEN /\ dmQueue' = Append(dmQueue, i)
                          /\ UNCHANGED <<dmInProgress, dmWorker>>
                     ELSE DmTakeNext(Append(dmQueue, i))
    /\ UNCHANGED dmLog
    /\ DmFrame

\* lines 1131-1135: the send resolved; the item is resolved with true and the
\* worker pauses 250 ms
DmSent ==
    /\ dmWorker.pc = "send"
    /\ dmLog' = [dmLog EXCEPT ![dmWorker.item] =
                    [attempts |-> @.attempts + 1, last |-> "sent"]]
    /\ dmResolved' = [dmResolved EXCEPT ![dmWorker.item] = "true"]
    /\ dmWorker' = [dmWorker EXCEPT !.pc = "pause"]
    /\ UNCHANGED <<dmQueue, dmInProgress>>
    /\ DmFrame

\* lines 1136-1146: the send rejected with e; the item is resolved with false
\* unless e is a rate limit and tries are left, and then the worker backs off
DmSendFailed(e) ==
    LET tries == dmWorker.tries + 1 IN
    /\ dmWorker.pc = "send"
    /\ dmLog' = [dmLog EXCEPT ![dmWorker.item] =
                    [attempts |-> @.attempts + 1, last |-> e]]
    /\ IF ~IsRate(e) \/ tries > DefaultMaxRetries
         THEN /\ dmResolved' = [dmResolved EXCEPT ![dmWorker.item] = "false"]
              /\ dmWorker' = [dmWorker EXCEPT !.pc = "pause", !.tries = tries]
         ELSE /\ dmWorker' = [dmWorker EXCEPT !.pc = "backoff", !.tries = tries]
              /\ UNCHANGED dmResolved
    /\ UNCHANGED <<dmQueue, dmInProgress>>
    /\ DmFrame

\* lines 1145-1146 and 1127: the backoff timer fired; the inner loop tests
\* tries <= maxRetries and sends again
DmBackoffEnds ==
    /\ dmWorker.pc = "backoff"
    /\ dmWorker' = [dmWorker EXCEPT
                      !.pc = IF dmWorker.tries <= DefaultMaxRetries THEN "send"
                                                                   ELSE "pause"]
    /\ UNCHANGED <<dmQueue, dmInProgress, dmResolved, dmLog>>
    /\ DmFrame

\* (mutant) an invocation that handles one item and ends
DmPauseEndsOnce ==
    /\ dmWorker.pc = "pause"
    /\ dmInProgress' = FALSE
    /\ dmWorker' = NoWorker
    /\ UNCHANGED <<dmQueue, dmResolved, dmLog>>
    /\ DmFrame

\* lines 1149, 1121 and 1151: the 250 ms pause ended; the loop takes the next
\* item, or ends and clears dmInProgress
DmPauseEnds ==
    /\ dmWorker.pc = "pause"
    /\ DmTakeNext(dmQueue)
    /\ UNCHANGED <<dmResolved, dmLog>>
    /\ DmFrame

NextDm ==
    \/ \E i \in DmItems : sendDMWithRetries(i)
    \/ DmSent
    \/ \E e \in SendEnds \ {"sent"} : DmSendFailed(e)
    \/ DmBackoffEnds
    \/ DmPauseEnds

InitDm == PipelineIdle /\ TicketIdle

SpecDm == InitDm /\ [][NextDm]_vars

\* Timers fire, and a request to the platform settles: the REST client rejects
\* a request that got no response within its timeout.
FairSpecDm ==
    /\ InitDm
    /\ [][NextDm]_vars
    /\ WF_vars(DmSent \/ \E e \in SendEnds \ {"sent"} : DmSendFailed(e))
    /\ WF_vars(DmBackoffEnds)
    /\ WF_vars(DmPauseEnds)

\* the items that were pushed to dmQueue
DmQueued == {i \in DmItems : dmResolved[i] \in {"pending", "true", "false"}}

\* C40: no item is left in dmQueue while no worker is running, and one worker
\* runs at a time; an item is resolved with true after a send that succeeded,
\* and with false after a failure that is no rate limit or after
\* maxRetries + 1 attempts; and every item that was queued is eventually
\* resolved with true or false
C40_EveryDmResolved ==
    /\ [](dmQueue # <<>> => dmInProgress /\ dmWorker.pc # "none")
    /\ [](dmInProgress <=> dmWorker.pc # "none")
    /\ [](\A i \in DmItems :
            /\ dmResolved[i] = "true" => dmLog[i].last = "sent"
            /\ dmResolved[i] = "false" =>
                 \/ dmLog[i].last = "other"
                 \/ dmLog[i].last = "rate" /\ dmLog[i].attempts = DefaultMaxRetries + 1
            /\ dmLog[i].attempts <= DefaultMaxRetries + 1)
    /\ \A i \in DmItems :
         (dmResolved[i] = "pending") ~> (dmResolved[i] \in {"true", "false"})

\* C40 witness: of two items that were queued the first was resolved with true
\* after a retry, the second with false after maxRetries + 1 rate-limited
\* attempts, and the worker has ended with dmQueue empty
C40_Witness ==
    \E i, j \in DmItems :
        /\ i < j
        /\ dmResolved[i] = "true"
        /\ dmResolved[j] = "false"
        /\ dmLog[j].last = "rate"
        /\ dmLog[j].attempts = DefaultMaxRetries + 1
        /\ dmLog[i].attempts > 1
        /\ ~dmInProgress
        /\ dmQueue = <<>>

----------------------------------------------------------------------------
(* Claims about the gateway *)

\* the runs whose classification request was refused for lack of budget
SkippedRuns == {r \in RunIds : outcome[r] \in {"skipped", "capped"}}

\* the runs whose classification request went out to the classifier
SentRuns == {r \in RunIds : outcome[r] \in {"sent", "answered", "failed"}}

\* C7: when N + 1 requests (N the budget) have been issued in the first
\* window and each was either sent or refused, exactly one was refused and N
\* were sent.
C7_OneSkippedOfBudgetPlusOne ==
    ( /\ windowStart = StartSec
      /\ \A r \in 1..MaxBudgetRuns : r \in SkippedRuns \cup SentRuns ) =>
        /\ Cardinality(SkippedRuns) = 1
        /\ Cardinality(SentRuns) = MAX_OPENAI_PER_MIN

\* the runs with a classification call to the external service in flight
InFlight == {r \in RunIds : pc[r] = "call"}

\* C8: at most CONCURRENCY classification calls are in flight, over the direct,
\* the queue and the quarantine path together.
C8_InFlightAtMostConcurrency == Cardinality(InFlight) <= CONCURRENCY

ClassificationResults ==
    {Result(c) : c \in {"OK", "FLAG_HATE", "FLAG_NSFW", "FLAG_BET", "FLAG_SPAM"}}

\* performOpenAICall has returned to run r
Settled(r) == outcome[r] \in {"cached", "capped", "unconfigured", "answered", "failed"}

\* C9: a classification request that has settled, direct or queued, gave its
\* handler a classification result (the handler no longer waits), and the
\* result is {flagged: false, category: OK} when the external call failed.
C9_RequestResolvesFailOpen ==
    \A r \in RunIds :
        Settled(r) =>
            /\ result[r] \in ClassificationResults
            /\ pc[r] \notin {"direct", "enqueue", "queued", "call"}
            /\ outcome[r] = "failed" => result[r] = ResultOK

\* C9 witness: a direct and a queued request whose external calls both failed
\* on both strategies; each resolved with OK.
C9_Witness ==
    \E r1, r2 \in RunIds :
        /\ path[r1] = "direct" /\ path[r2] = "queue"
        /\ outcome[r1] = "failed" /\ outcome[r2] = "failed"
        /\ result[r1] = ResultOK /\ result[r2] = ResultOK

\* C10: a run whose external call never returns still ends, and a request
\* waiting in the queue does not wait forever.
C10_HungCallStillEnds ==
    /\ \A r \in 1..MaxGatewayRuns : hung[r] ~> (pc[r] = "done")
    /\ \A r \in 1..MaxGatewayRuns : (pc[r] = "queued") ~> (pc[r] # "queued")

====
